---- MODULE Spec2Model ----
(***************************************************************************)
(* Model of the Kavak chat bot (JFernando12/chat-bot).                     *)
(*                                                                         *)
(*   Spec         one request through ChatService.process_message: the     *)
(*                LangGraph pipeline classify_intent -> route_by_intent -> *)
(*                general/catalog/finance agent -> format_output -> END.   *)
(*   SpecFinance  FinanceCalculator.calculate applied to a grid of inputs. *)
(*                                                                         *)
(* Units.  Python floats are IEEE-754 binary64 numbers, modelled bit for   *)
(* bit; an amount of money is a float in pesos (MXN).  The catalogs and    *)
(* the grids of arguments write an amount as an integer number of centavos *)
(* (1/100 MXN) and a rate as an integer number of basis points (1/10000),  *)
(* so the 0.10 the code uses is 1000; Pesos and Rate give their floats.    *)
(*                                                                         *)
(* Characters.  A string whose content is inspected is a sequence of       *)
(* characters of Latin-1.  A character that cannot be written in a module, *)
(* and a character outside Latin-1 that upper- or lowercasing gives, is    *)
(* named by its code point: "U+00A0" is the no-break space.                *)
(***************************************************************************)
EXTENDS Integers, Sequences, FiniteSets, Bags, TLC

VARIABLES
    finIn,      \* SpecFinance: the arguments of FinanceCalculator.calculate
    finOut,     \* SpecFinance: what the call returned or raised
    catalog,    \* the cars SemanticCatalogSearchService loaded at start-up
    pc,         \* position of the request in flight in the LangGraph pipeline
    state,      \* the AgentState flowing through the graph
    node,       \* the node route_by_intent selected
    returned,   \* what process_message returned to its caller
    clsOut,     \* outcome of the classifier call, while the request is CLASSIFIED
    extraction, \* outcome of the finance agent's extraction call
    lookups,    \* the finance agent's catalog lookups: car name and price found
    engineCalls,\* arguments of the calls made to FinanceCalculator.calculate
    failed,     \* the calls that failed during this request: capabilities, engine
    kPc,        \* SpecAgent: position of KavakCommercialAgent.process_message
    kMessages,  \* SpecAgent: the messages of the agent graph's state
    kResult,    \* SpecAgent: what KavakCommercialAgent.process_message returned
    carsCache,  \* SpecRecommend: CSVCarRepository._cars_cache, the loaded catalog
    recIn,      \* SpecRecommend: the arguments of the constructor and the limit
    recOut,     \* SpecRecommend: the results of the calls made so far
    prefs,      \* SpecRecommend: the CustomerPreferences built, or what it raised
    clock,      \* SpecRecommend: the year datetime.now() gives
    conversations,        \* SpecWebhook: whatsapp_router._conversations, From -> object
    heap,                 \* SpecWebhook: the Conversation objects, each a list of turns
    requests,             \* SpecWebhook: the requests received by the router's webhook
    running,              \* SpecWebhook: the request the event loop is executing, or 0
    conversation_storage, \* SpecWebhook: main.conversation_storage, user_id -> state
    tasks,                \* SpecWebhook: the background tasks of main's webhook
    searchIn,   \* SpecSearch: the catalog and the arguments of the search calls
    searchOut,  \* SpecSearch: the call made and what it returned
    source,     \* SpecCatalog: the rows of the CSV file
    carHeap,    \* SpecCatalog: the Car objects built from the rows
    cacheList,  \* SpecCatalog: CSVCarRepository._cars_cache, a list of objects
    callerList, \* SpecCatalog: the list a caller of get_all_cars holds
    threads,    \* SpecCatalog: where each thread stands in get_all_cars
    pandasOut   \* SpecCatalog: what PandasCatalogRepository.get_all returned

finVars == <<finIn, finOut>>
chatVars == <<catalog, pc, state, node, returned, clsOut, extraction, lookups,
              engineCalls, failed>>
agentVars == <<kPc, kMessages, kResult>>
recVars == <<carsCache, recIn, recOut, prefs, clock>>
hookVars == <<conversations, heap, requests, running, conversation_storage, tasks>>
searchVars == <<searchIn, searchOut>>
storeVars == <<source, carHeap, cacheList, callerList, threads, pandasOut>>
libVars == <<searchVars, storeVars>>
extraVars == <<agentVars, recVars, hookVars, libVars>>
vars == <<finIn, finOut, catalog, pc, state, node, returned, clsOut, extraction,
          lookups, engineCalls, failed, extraVars>>

----------------------------------------------------------------------------
(* Multi-limb naturals: little-endian sequences of limbs in 0..Base-1, the *)
(* empty sequence for 0.  TLC's integers have 32 bits and its evaluation   *)
(* stack is short, so the limbs are combined with quantifiers and sums,    *)
(* not by recursion along the sequence.                                    *)

LimbBits == 3 * 5
Base == 2^LimbBits

Max(a, b) == IF a > b THEN a ELSE b
Abs(x) == IF x < 0 THEN 0 - x ELSE x
Min(a, b) == IF a < b THEN a ELSE b

\* the sum of a sequence of naturals: the size of the bag with f[i] copies of i
Sum(f) == BagCardinality([i \in {j \in DOMAIN f : f[j] > 0} |-> f[i]])

Limb(a, i) == IF i >= 1 /\ i <= Len(a) THEN a[i] ELSE 0

\* a without its leading zero limbs
Trim(a) ==
    LET used == {i \in 1..Len(a) : a[i] # 0}
    IN  IF used = {} THEN <<>>
        ELSE SubSeq(a, 1, CHOOSE i \in used : \A j \in used : j <= i)

\* for x below 2^31
ToBig(x) == Trim(<<x % Base, (x \div Base) % Base, x \div (Base * Base)>>)
FromBig(a) == Limb(a, 1) + Base * Limb(a, 2) + Base * Base * Limb(a, 3)

\* -1, 0, 1 as a < b, a = b, a > b
BigCmp(a, b) ==
    LET differ == {i \in 1..Max(Len(a), Len(b)) : Limb(a, i) # Limb(b, i)}
        top    == CHOOSE i \in differ : \A j \in differ : j <= i
    IN  IF differ = {} THEN 0 ELSE IF Limb(a, top) < Limb(b, top) THEN -1 ELSE 1

\* a + b: a carry enters limb i when a limb below it overflows and every
\* limb between the two is full
BigAdd(a, b) ==
    LET n          == Max(Len(a), Len(b))
        S(i)       == Limb(a, i) + Limb(b, i)
        Carry(i)   == \E j \in 1..(i - 1) :
                          S(j) >= Base /\ \A k \in (j + 1)..(i - 1) : S(k) = Base - 1
    IN  IF a = <<>> THEN b
        ELSE IF b = <<>> THEN a
        ELSE Trim([i \in 1..(n + 1) |-> (S(i) + IF Carry(i) THEN 1 ELSE 0) % Base])

\* a - b for a >= b
BigSub(a, b) ==
    LET D(i)      == Limb(a, i) - Limb(b, i)
        Borrow(i) == \E j \in 1..(i - 1) :
                         D(j) < 0 /\ \A k \in (j + 1)..(i - 1) : D(k) = 0
    IN  IF b = <<>> THEN a
        ELSE Trim([i \in 1..Len(a) |-> (D(i) - (IF Borrow(i) THEN 1 ELSE 0) + Base) % Base])

\* a * Base^k and a \div Base^k
ShiftLeft(a, k) == IF a = <<>> THEN <<>> ELSE [i \in 1..k |-> 0] \o a
ShiftRight(a, k) == IF Len(a) <= k THEN <<>> ELSE SubSeq(a, k + 1, Len(a))

\* the number whose limbs are the entries of w, each below 2^30
Carried(w) ==
    IF w = <<>> THEN <<>>
    ELSE BigAdd([i \in 1..Len(w) |-> w[i] % Base], <<0>> \o [i \in 1..Len(w) |-> w[i] \div Base])

\* a * d for 0 <= d <= Base
BigMulSmall(a, d) ==
    IF a = <<>> \/ d = 0 THEN <<>> ELSE Carried([i \in 1..Len(a) |-> a[i] * d])

\* a * b, column by column
BigMul(a, b) ==
    LET Term(k, i) == IF k + 1 - i >= 1 /\ k + 1 - i <= Len(b) THEN a[i] * b[k + 1 - i] ELSE 0
        n          == Len(a) + Len(b) - 1
        lows       == [k \in 1..n |-> Sum([i \in 1..Len(a) |-> Term(k, i) % Base])]
        highs      == [k \in 1..n |-> Sum([i \in 1..Len(a) |-> Term(k, i) \div Base])]
    IN  IF a = <<>> \/ b = <<>> THEN <<>>
        ELSE BigAdd(Carried(lows), <<0>> \o Carried(highs))

\* the number of binary digits of a limb, and of a
BitsOf(x) == CHOOSE n \in 0..LimbBits : x < 2^n /\ (n = 0 \/ x >= 2^(n - 1))
BitLen(a) ==
    LET t == Trim(a)
    IN  IF t = <<>> THEN 0 ELSE LimbBits * (Len(t) - 1) + BitsOf(t[Len(t)])

\* a * 2^k and a \div 2^k
ShiftLeftBits(a, k) ==
    IF a = <<>> \/ k = 0 THEN a
    ELSE BigMulSmall(ShiftLeft(a, k \div LimbBits), 2^(k % LimbBits))
ShiftRightBits(a, k) ==
    LET t == ShiftRight(a, k \div LimbBits)
        s == k % LimbBits
    IN  IF a = <<>> \/ k = 0 THEN a
        ELSE Trim([i \in 1..Len(t) |-> t[i] \div 2^s + (Limb(t, i + 1) % 2^s) * 2^(LimbBits - s)])

\* binary digit i of a (digit 0 is the last one), and whether a digit below it is set
Bit(a, i) == (Limb(a, i \div LimbBits + 1) \div 2^(i % LimbBits)) % 2
AnyBitBelow(a, i) ==
    \E j \in 1..Len(a) : \/ j <= i \div LimbBits /\ a[j] # 0
                         \/ j = i \div LimbBits + 1 /\ a[j] % 2^(i % LimbBits) # 0

\* the digit q with q * d <= rem < (q + 1) * d, for rem < d * Base and a d
\* whose top limb is Base / 2 or more: the quotient of the leading limbs is
\* q, q + 1 or q + 2 (Knuth, The Art of Computer Programming 4.3.1, Theorem B)
QuotDigit(rem, d) ==
    LET n       == Len(d)
        est     == Min(Base - 1, (Limb(rem, n + 1) * Base + Limb(rem, n)) \div d[n])
        Fits(q) == BigCmp(BigMulSmall(d, q), rem) <= 0
    IN  IF Fits(est) THEN est ELSE IF Fits(est - 1) THEN est - 1 ELSE est - 2

\* the quotient and the remainder of a by d once the limbs i, i + 1, ... of a
\* are brought down, d as for QuotDigit
RECURSIVE LongDivision(_, _, _)
LongDivision(a, d, i) ==
    IF i > Len(a) - Len(d) + 1
    THEN [q |-> <<>>, r |-> Trim(SubSeq(a, Max(i, 1), Len(a)))]
    ELSE LET high  == LongDivision(a, d, i + 1)
             rem   == Trim(<<a[i]>> \o high.r)
             digit == QuotDigit(rem, d)
         IN  IF high.r = <<>> /\ a[i] = 0
             THEN [q |-> <<0>> \o high.q, r |-> <<>>]
             ELSE [q |-> <<digit>> \o high.q, r |-> BigSub(rem, BigMulSmall(d, digit))]

\* the quotient and the remainder of a division whose operands were both
\* multiplied by 2^s
Unscaled(res, s) == [q |-> Trim(res.q), r |-> ShiftRightBits(res.r, s)]

\* a \div d and a % d for d not 0: both are scaled to make d's top limb large
BigDivMod(a, d) ==
    LET s == LimbBits - BitsOf(d[Len(d)])
    IN  IF BigCmp(a, d) < 0 THEN [q |-> <<>>, r |-> a]
        ELSE Unscaled(LongDivision(ShiftLeftBits(a, s), ShiftLeftBits(d, s), 1), s)

----------------------------------------------------------------------------
(* Python floats: IEEE-754 binary64.  A finite float is the sign s, the    *)
(* mantissa m (a multi-limb natural below 2^53) and the exponent e of its  *)
(* last place: its value is (-1)^s * m * 2^e, with m >= 2^52 unless e is   *)
(* the least exponent (subnormal numbers) or m is 0 (the zeros, e = 0).    *)

MantissaBits == 52 + 1
MinExponent == 0 - 1074
MaxExponent == 1023 - 52

Finite(s, m, e) == [k |-> "fin", s |-> s, m |-> m, e |-> e]
Zero(s) == Finite(s, <<>>, 0)
Infinity(s) == [k |-> "inf", s |-> s, m |-> <<>>, e |-> 0]
NaN == [k |-> "nan", s |-> 0, m |-> <<>>, e |-> 0]

IsZero(x) == x.k = "fin" /\ x.m = <<>>
Negated(x) == IF x.k = "nan" THEN x ELSE [x EXCEPT !.s = 1 - x.s]

\* a \div 2^k rounded to an integer: to the nearest one, ties to the even
\* one, or to the one below or above when the division is not exact
RoundedShift(a, k, direction) ==
    LET q  == ShiftRightBits(a, k)
        up == IF direction = "nearest"
              THEN Bit(a, k - 1) = 1 /\ (AnyBitBelow(a, k - 1) \/ Bit(a, k) = 1)
              ELSE direction = "above" /\ AnyBitBelow(a, k)
    IN  IF k = 0 THEN a ELSE IF up THEN BigAdd(q, <<1>>) ELSE q

\* the float (-1)^s * r * 2^last for a rounded mantissa r, which has one
\* binary digit too many when the rounding carried into a new digit
Carrying(s, r, last) ==
    LET carry == BitLen(r) > MantissaBits
        exp   == IF carry THEN last + 1 ELSE last
    IN  IF r = <<>> THEN Zero(s)
        ELSE IF exp > MaxExponent THEN Infinity(s)
        ELSE Finite(s, IF carry THEN ShiftRightBits(r, 1) ELSE r, exp)

\* the float that (-1)^s * m * 2^e rounds to when its last place is `last`,
\* for m not 0
RoundedTo(s, m, e, last, direction) ==
    IF last <= e
    THEN IF last > MaxExponent THEN Infinity(s)
         ELSE Finite(s, ShiftLeftBits(m, e - last), last)
    ELSE Carrying(s, RoundedShift(m, last - e, direction), last)

\* the float that (-1)^s * m * 2^e rounds to, for any natural m; a result
\* of 2^1024 or more is an infinity
Rounded(s, m, e, direction) ==
    IF m = <<>> THEN Zero(s)
    ELSE RoundedTo(s, m, e, Max(e + BitLen(m) - MantissaBits, MinExponent), direction)

\* float(n) of an int
FloatOfInt(n) == Rounded(IF n < 0 THEN 1 ELSE 0, ToBig(Abs(n)), 0, "nearest")

One == Finite(0, ShiftLeft(<<2^(MantissaBits - 1 - 3 * LimbBits)>>, 3), 1 - MantissaBits)

\* the float nearest to ((-1)^sa * ma + (-1)^sb * mb) * 2^e, ma and mb not 0
SignedSum(sa, ma, sb, mb, e) ==
    LET c == BigCmp(ma, mb)
    IN  IF sa # sb /\ c = 0 THEN Zero(0)
        ELSE Rounded(IF sa = sb \/ c > 0 THEN sa ELSE sb,
                     IF sa = sb THEN BigAdd(ma, mb)
                     ELSE IF c > 0 THEN BigSub(ma, mb) ELSE BigSub(mb, ma),
                     e, "nearest")

\* the sum of two finite floats that are not 0, a.e >= b.e; a term more
\* than 120 places below the other one only decides the direction of rounding
AddFinite(a, b) ==
    LET far == a.e - b.e > 120
        e   == IF far THEN a.e - 67 ELSE b.e
    IN  SignedSum(a.s, ShiftLeftBits(a.m, a.e - e), b.s, IF far THEN <<1>> ELSE b.m, e)

\* x + y
Add(x, y) ==
    IF x.k = "nan" \/ y.k = "nan" THEN NaN
    ELSE IF x.k = "inf" THEN (IF y.k = "inf" /\ y.s # x.s THEN NaN ELSE x)
    ELSE IF y.k = "inf" THEN y
    ELSE IF IsZero(x) /\ IsZero(y) THEN Zero(IF x.s = 1 /\ y.s = 1 THEN 1 ELSE 0)
    ELSE IF IsZero(x) THEN y
    ELSE IF IsZero(y) THEN x
    ELSE AddFinite(IF x.e >= y.e THEN x ELSE y, IF x.e >= y.e THEN y ELSE x)

\* x - y
Sub(x, y) == Add(x, Negated(y))

\* x * y
Mul(x, y) ==
    LET s == (x.s + y.s) % 2
    IN  IF x.k = "nan" \/ y.k = "nan" THEN NaN
        ELSE IF x.k = "inf" \/ y.k = "inf"
        THEN (IF IsZero(x) \/ IsZero(y) THEN NaN ELSE Infinity(s))
        ELSE Rounded(s, BigMul(x.m, y.m), x.e + y.e, "nearest")

\* the float nearest to (-1)^s * 2^e times the quotient of a division d
\* that went 56 binary digits or more: a digit is added to the quotient when
\* the division left a remainder
RoundedDivision(s, d, e) ==
    Rounded(s,
            IF d.r = <<>> THEN d.q ELSE BigAdd(BigMulSmall(d.q, 2), <<1>>),
            IF d.r = <<>> THEN e ELSE e - 1,
            "nearest")

\* the float nearest to (-1)^s * (m1 * 2^e1) / (m2 * 2^e2), m2 not 0: the
\* quotient to 56 binary digits or more, and one more digit that tells
\* whether the division left a remainder
Quotient(s, m1, e1, m2, e2) ==
    LET k == Max(0, MantissaBits + 3 + BitLen(m2) - BitLen(m1))
    IN  IF m1 = <<>> THEN Zero(s)
        ELSE RoundedDivision(s, BigDivMod(ShiftLeftBits(m1, k), m2), e1 - k - e2)

\* x / y for y not 0 (Python raises ZeroDivisionError for y = 0)
Div(x, y) ==
    LET s == (x.s + y.s) % 2
    IN  IF x.k = "nan" \/ y.k = "nan" THEN NaN
        ELSE IF x.k = "inf" THEN (IF y.k = "inf" THEN NaN ELSE Infinity(s))
        ELSE IF y.k = "inf" THEN Zero(s)
        ELSE Quotient(s, x.m, x.e, y.m, y.e)

\* x < 0
Negative(x) == x.k # "nan" /\ ~IsZero(x) /\ x.s = 1

\* -1, 0, 1 as |x| is below, at or above |y|, neither a NaN: a finite float's
\* mantissa fills its 53 digits unless its exponent is the least one
SizeCmp(x, y) ==
    IF x.k = "inf" \/ y.k = "inf"
    THEN (IF x.k = y.k THEN 0 ELSE IF y.k = "inf" THEN -1 ELSE 1)
    ELSE IF x.m = <<>> \/ y.m = <<>> \/ x.e = y.e THEN BigCmp(x.m, y.m)
    ELSE IF x.e < y.e THEN -1 ELSE 1

\* x < y and x <= y
Less(x, y) ==
    /\ x.k # "nan" /\ y.k # "nan"
    /\ ~(IsZero(x) /\ IsZero(y))
    /\ IF IsZero(x) THEN y.s = 0
       ELSE IF IsZero(y) THEN x.s = 1
       ELSE IF x.s # y.s THEN x.s = 1
       ELSE IF x.s = 0 THEN SizeCmp(x, y) < 0
       ELSE SizeCmp(x, y) > 0
LessEq(x, y) ==
    x.k # "nan" /\ y.k # "nan" /\ (x = y \/ (IsZero(x) /\ IsZero(y)) \/ Less(x, y))

\* m * 2^e kept to `bits` binary digits, cut down or up
Chop(m, e, bits, up) ==
    LET k == BitLen(m) - bits
    IN  IF k <= 0 THEN [m |-> m, e |-> e]
        ELSE [m |-> RoundedShift(m, k, IF up THEN "above" ELSE "below"), e |-> e + k]

\* bounds on a product from bounds on its factors: m is the product of the
\* lower bounds, and that of the upper bounds too when the factors are exact
ProductBounds(m, exact, a, b, bits) ==
    [lo |-> Chop(m, a.lo.e + b.lo.e, bits, FALSE),
     hi |-> Chop(IF exact THEN m ELSE BigMul(a.hi.m, b.hi.m), a.hi.e + b.hi.e, bits, TRUE)]
Times(a, b, bits) ==
    ProductBounds(BigMul(a.lo.m, b.lo.m), a.lo = a.hi /\ b.lo = b.hi, a, b, bits)

\* bounds on x^n from the bounds h on x^(n \div 2), n even, or on x^(n - 1)
PowStep(h, x, n, bits) ==
    IF h.hi.m = <<>> THEN h
    ELSE Times(h, IF n % 2 = 0 THEN h ELSE [lo |-> x, hi |-> x], bits)

\* bounds on x^n, n >= 1, by squaring; a power of 0 is 0
RECURSIVE PowBounds(_, _, _)
PowBounds(x, n, bits) ==
    IF n = 1 THEN [lo |-> x, hi |-> x]
    ELSE PowStep(PowBounds(x, IF n % 2 = 0 THEN n \div 2 ELSE n - 1, bits), x, n, bits)

\* bounds on 1 / p from bounds on p, lo and hi being 2^k over p's bounds
Inverses(lo, hi, k, p) ==
    [lo |-> [m |-> lo.q, e |-> 0 - k - p.hi.e],
     hi |-> [m |-> IF hi.r = <<>> THEN hi.q ELSE BigAdd(hi.q, <<1>>),
             e |-> 0 - k - p.lo.e]]
Reciprocal(p, bits) ==
    Inverses(BigDivMod(ShiftLeftBits(<<1>>, 2 * bits + 2), p.hi.m),
             BigDivMod(ShiftLeftBits(<<1>>, 2 * bits + 2), p.lo.m),
             2 * bits + 2, p)

\* bounds on x^n for an integer n # 0
SignedPowBounds(x, n, bits) ==
    IF n < 0 THEN Reciprocal(PowBounds(x, 0 - n, bits), bits) ELSE PowBounds(x, n, bits)

\* the three roundings of a positive number known by its bounds
Roundings(v) ==
    [nearest |-> Rounded(0, v.m, v.e, "nearest"),
     below   |-> Rounded(0, v.m, v.e, "below"),
     above   |-> Rounded(0, v.m, v.e, "above")]

\* m^n * 2^(e * n) for m > 0 and an integer n # 0, rounded in each direction:
\* the power is bounded closely enough for its two bounds to round alike
RECURSIVE PowWithin(_, _, _, _)
PowAgreed(lo, hi, m, e, n, bits) == IF lo = hi THEN lo ELSE PowWithin(m, e, n, 2 * bits)
PowBetween(b, m, e, n, bits) == PowAgreed(Roundings(b.lo), Roundings(b.hi), m, e, n, bits)
PowWithin(m, e, n, bits) ==
    PowBetween(SignedPowBounds([m |-> m, e |-> e], n, bits), m, e, n, bits)

\* the float of an amount of c centavos, and of b basis points
Pesos(c) == Quotient(IF c < 0 THEN 1 ELSE 0, ToBig(Abs(c)), 0, ToBig(100), 0)
Rate(b) == Quotient(0, ToBig(b), 0, ToBig(10000), 0)

AnnualRate == 1000      \* annual_rate=0.10

\* the powers FinanceAgent asks for with its rate, 1.0 + 0.10 / 12.0 to the
\* power -36, -48, -60 and -72, worked out once
PowersOf(x, exponents) ==
    [n \in exponents |-> [x |-> x, p |-> PowWithin(x.m, x.e, n, 5 * LimbBits)]]
AgentPowers ==
    PowersOf(Add(One, Div(Rate(AnnualRate), FloatOfInt(12))),
             {0 - 12 * years : years \in 3..6})

\* x ** n is the C library's pow(x, n), whose result is within one unit in
\* the last place of the power and differs from one library and processor
\* to another: it is the float nearest to the power, or else the float on
\* the other side of the power
LibmRoundings == {"nearest", "farther"}

\* the roundings of x^n: looked up in a table of powers, or worked out
PowIn(table, x, n) ==
    IF n \in DOMAIN table /\ table[n].x = x THEN table[n].p
    ELSE PowWithin(x.m, x.e, n, 5 * LimbBits)

\* the rounding of a power p the library gives
LibmRounding(p, libm) ==
    IF libm = "nearest" THEN p.nearest
    ELSE IF p.nearest = p.below THEN p.above ELSE p.below

\* x ** n for an int n, x not 0 when n < 0, and a power within the floats'
\* range (Python raises ZeroDivisionError and OverflowError otherwise);
\* float_pow returns 1.0 for 1.0 ** n without calling the library
Pow(x, n, libm) ==
    LET s == IF n % 2 = 1 THEN x.s ELSE 0
    IN  IF n = 0 \/ x = One THEN One
        ELSE IF x.k = "nan" THEN NaN
        ELSE IF x.k = "inf" \/ IsZero(x)
        THEN (IF (x.k = "inf") = (n > 0) THEN Infinity(s) ELSE Zero(s))
        ELSE [LibmRounding(PowIn(AgentPowers, x, n), libm) EXCEPT !.s = s]

\* x * 100 rounded to an integer, ties to even, for a finite x: its size
Hundredths(x) ==
    LET p == BigMulSmall(x.m, 100)
    IN  IF x.e >= 0 THEN ShiftLeftBits(p, x.e)
        ELSE RoundedShift(p, 0 - x.e, "nearest")

\* round(x, 2): the float nearest to the two-decimal number nearest to x;
\* an infinity, a NaN and an integer (e >= 0) are their own rounding
Round2(x) ==
    IF x.k # "fin" \/ x.e >= 0 THEN x
    ELSE Quotient(x.s, Hundredths(x), 0, ToBig(100), 0)

\* the centavos of an amount x, for x within 31 bits of centavos
Cents(x) == (IF x.s = 1 THEN -1 ELSE 1) * FromBig(Hundredths(x))

----------------------------------------------------------------------------
(* domain/finance.py                                                       *)

\* the dataclass FinancingPlan; the amounts are floats, in pesos
FinancingPlan(financed_amount, monthly_payment, total_paid, total_interest, months) ==
    [financed_amount |-> financed_amount,
     monthly_payment |-> monthly_payment,
     total_paid      |-> total_paid,
     total_interest  |-> total_interest,
     months          |-> months]

Returned(plan) == [raised |-> "none", plan |-> plan]
Raised(exception, message) == [raised |-> exception, message |-> message]

TermError == Raised("ValueError", "El plazo debe estar entre 3 y 6 años.")
DivisionError == Raised("ZeroDivisionError", "float division by zero")

\* the plan of the degenerate case, financed <= 0; the int 0 the code
\* writes is the float 0.0, which it equals
ZeroPlanKeepsNothing(enganche) == FinancingPlan(Zero(0), Zero(0), Zero(0), Zero(0), 0)
ZeroPlan(enganche) == FinancingPlan(Zero(0), Zero(0), enganche, Zero(0), 0)

PlanFromMonthly(monthly, financed, enganche, n) ==
    LET paid == Mul(monthly, FloatOfInt(n))
    IN  FinancingPlan(Round2(financed),
                      Round2(monthly),
                      Round2(Add(paid, enganche)),
                      Round2(Sub(paid, financed)),
                      n)

\* the monthly payment (r * financed) / denom and the plan built from it; the
\* float division raises when the divisor is 0.0
Monthly(r, financed, denom, enganche, n) ==
    IF IsZero(denom) THEN DivisionError
    ELSE Returned(PlanFromMonthly(Div(Mul(r, financed), denom), financed, enganche, n))

\* the standard case: (r * financed) / (1.0 - (1.0 + r) ** (-n))
Amortization(financed, enganche, annual_rate, years, libm) ==
    LET n == years * 12
        r == Div(annual_rate, FloatOfInt(12))
    IN  Monthly(r, financed, Sub(One, Pow(Add(One, r), 0 - n, libm)), enganche, n)

\* FinanceCalculator.calculate, for floats price and enganche, a float
\* annual_rate >= 0 and an int years
CalculateClampsTerm(price, enganche, annual_rate, years, libm) ==
    LET y == IF years < 3 \/ years > 6 THEN 5 ELSE years
        financed == Sub(price, enganche)
    IN  IF LessEq(financed, Zero(0)) THEN Returned(ZeroPlan(enganche))
        ELSE Amortization(financed, enganche, annual_rate, y, libm)
Calculate(price, enganche, annual_rate, years, libm) ==
    IF years < 3 \/ years > 6 THEN TermError
    ELSE LET financed == Sub(price, enganche)
         IN  IF LessEq(financed, Zero(0)) THEN Returned(ZeroPlan(enganche))
             ELSE Amortization(financed, enganche, annual_rate, years, libm)

----------------------------------------------------------------------------
(* Python strings whose content is inspected are sequences of characters.  *)

\* the letters of Latin-1 that have an upper-case and a lower-case form, the
\* two forms at the same place; the last two upper-case forms are outside
\* Latin-1
LowerCase == <<"a", "b", "c", "d", "e", "f", "g", "h", "i", "j", "k", "l", "m",
              "n", "o", "p", "q", "r", "s", "t", "u", "v", "w", "x", "y", "z",
              "à", "á", "â", "ã", "ä", "å", "æ", "ç", "è", "é", "ê", "ë", "ì",
              "í", "î", "ï", "ð", "ñ", "ò", "ó", "ô", "õ", "ö", "ø", "ù", "ú",
              "û", "ü", "ý", "þ", "ÿ", "U+03BC">>
UpperCase == <<"A", "B", "C", "D", "E", "F", "G", "H", "I", "J", "K", "L", "M",
              "N", "O", "P", "Q", "R", "S", "T", "U", "V", "W", "X", "Y", "Z",
              "À", "Á", "Â", "Ã", "Ä", "Å", "Æ", "Ç", "È", "É", "Ê", "Ë", "Ì",
              "Í", "Î", "Ï", "Ð", "Ñ", "Ò", "Ó", "Ô", "Õ", "Ö", "Ø", "Ù", "Ú",
              "Û", "Ü", "Ý", "Þ", "U+0178", "U+039C">>
\* str.isspace: the characters strip() removes and split() splits at
Whitespace == {" ", "\t", "\n", "\r", "U+000B", "U+000C", "U+001C", "U+001D", "U+001E",
               "U+001F", "U+0085", "U+00A0"}
Digits == <<"0", "1", "2", "3", "4", "5", "6", "7", "8", "9">>

\* the lower-case form of each upper-case letter and the other way round
ToLower == [c \in {UpperCase[i] : i \in DOMAIN UpperCase} |->
               LowerCase[CHOOSE i \in DOMAIN UpperCase : UpperCase[i] = c]]
ToUpper == [c \in {LowerCase[i] : i \in DOMAIN LowerCase} |->
               UpperCase[CHOOSE i \in DOMAIN LowerCase : LowerCase[i] = c]]

\* str.upper of one character: the sharp s becomes two letters, and the
\* micro sign the capital mu
UpperChar(c) ==
    IF c = "ß" THEN <<"S", "S">>
    ELSE IF c = "µ" THEN <<"U+039C">>
    ELSE IF c \in DOMAIN ToUpper THEN <<ToUpper[c]>>
    ELSE <<c>>

\* the strings of a sequence, one after the other
RECURSIVE Flatten(_)
Flatten(parts) == IF parts = <<>> THEN <<>> ELSE Head(parts) \o Flatten(Tail(parts))

\* str.upper
StrUpper(s) == Flatten([i \in 1..Len(s) |-> UpperChar(s[i])])

\* str.lower, one character and a string
LowerChar(c) == IF c \in DOMAIN ToLower THEN ToLower[c] ELSE c
RECURSIVE StrLower(_)
StrLower(s) == IF s = <<>> THEN <<>> ELSE <<LowerChar(Head(s))>> \o StrLower(Tail(s))

\* str.lstrip and str.rstrip of the characters of a set
RECURSIVE LStrip(_, _)
LStrip(s, chars) == IF s # <<>> /\ Head(s) \in chars THEN LStrip(Tail(s), chars) ELSE s

RECURSIVE RStrip(_, _)
RStrip(s, chars) ==
    IF s # <<>> /\ s[Len(s)] \in chars
    THEN RStrip(SubSeq(s, 1, Len(s) - 1), chars)
    ELSE s

\* str.strip
Strip(s) == RStrip(LStrip(s, Whitespace), Whitespace)

\* the characters as one string
RECURSIVE Join(_)
Join(s) == IF s = <<>> THEN "" ELSE Head(s) \o Join(Tail(s))

IsDigit(c) == \E i \in 1..Len(Digits) : Digits[i] = c
DigitValue(c) == (CHOOSE i \in 1..Len(Digits) : Digits[i] = c) - 1

----------------------------------------------------------------------------
(* float(x) and int(x) of a string                                         *)

\* the characters float() and int() skip around a numeral
NumberSpace == Whitespace \ {"U+001C", "U+001D", "U+001E", "U+001F"}

\* a numeral without the sign it may start with, and whether the sign is "-"
Unsigned(s) == IF s # <<>> /\ s[1] \in {"+", "-"} THEN Tail(s) ELSE s
Minus(s) == IF s # <<>> /\ s[1] = "-" THEN 1 ELSE 0

\* an underscore is allowed between two digits
Grouped(s) ==
    \A i \in 1..Len(s) :
        s[i] = "_" => i > 1 /\ i < Len(s) /\ IsDigit(s[i - 1]) /\ IsDigit(s[i + 1])
Ungrouped(s) == SelectSeq(s, LAMBDA c : c # "_")

IsNumeral(s) == s # <<>> /\ \A i \in 1..Len(s) : IsDigit(s[i])
Significant(s) ==
    LET used == {i \in 1..Len(s) : s[i] # "0"}
    IN  IF used = {} THEN <<>>
        ELSE SubSeq(s, CHOOSE i \in used : \A j \in used : i <= j, Len(s))

\* the number a numeral of at most 9 significant digits writes; as the
\* exponent of a float a longer numeral stands for 10^9, an exponent of
\* some hundreds already giving an infinity or 0
RECURSIVE DigitsValue(_)
DigitsValue(s) ==
    IF s = <<>> THEN 0
    ELSE 10 * DigitsValue(SubSeq(s, 1, Len(s) - 1)) + DigitValue(s[Len(s)])
Small(s) == IF Len(Significant(s)) > 9 THEN 10^9 ELSE DigitsValue(Significant(s))

\* the multi-limb number a numeral writes, and 10^k
RECURSIVE PowerOfTen(_)
PowerOfTen(k) ==
    LET h == PowerOfTen(k \div 2)
    IN  IF k = 0 THEN <<1>>
        ELSE IF k % 2 = 0 THEN BigMul(h, h) ELSE BigMulSmall(BigMul(h, h), 10)
RECURSIVE BigOfDigits(_)
BigOfDigits(s) ==
    LET half == Len(s) \div 2
    IN  IF Len(s) <= 9 THEN ToBig(DigitsValue(s))
        ELSE BigAdd(BigMul(BigOfDigits(SubSeq(s, 1, Len(s) - half)), PowerOfTen(half)),
                    BigOfDigits(SubSeq(s, Len(s) - half + 1, Len(s))))

\* the float nearest to (-1)^s * m * ten for k >= 0, to (-1)^s * m / ten for
\* k < 0; a product is the quotient of twice the product by 2
Scaled(s, m, ten, k) ==
    Quotient(s, IF k >= 0 THEN BigMul(m, ten) ELSE m, 0, IF k >= 0 THEN <<1>> ELSE ten, 0)

\* the float nearest to (-1)^s * digits * 10^k; a number of more than 310
\* digits is an infinity and one below 10^-330 is 0
Decimal(s, digits, k) ==
    LET d == Significant(digits)
    IN  IF d = <<>> \/ Len(d) + k < 0 - 330 THEN Zero(s)
        ELSE IF Len(d) + k > 310 THEN Infinity(s)
        ELSE Scaled(s, BigOfDigits(d), PowerOfTen(Abs(k)), k)

Converted(x) == [ok |-> TRUE, val |-> x]
NotConverted == [ok |-> FALSE, val |-> 0]

\* a Python int: the sign s and the size m, a multi-limb natural; int(n) of
\* a number below 2^31, and -1, 0, 1 as the int x is below, at or above such
\* a number
Integer(s, m) == [s |-> IF m = <<>> THEN 0 ELSE s, m |-> m]
IntOfInt(n) == Integer(IF n < 0 THEN 1 ELSE 0, ToBig(Abs(n)))
IntCmp(x, n) ==
    IF x.s # (IF n < 0 THEN 1 ELSE 0) THEN (IF x.s = 1 THEN -1 ELSE 1)
    ELSE (IF x.s = 1 THEN -1 ELSE 1) * BigCmp(x.m, ToBig(Abs(n)))

\* sys.get_int_max_str_digits(): int() refuses a numeral of more digits,
\* the leading zeros counted
MaxStrDigits == 4300

\* int(s): an optional sign and digits
IntOfString(s) ==
    LET t == RStrip(LStrip(s, NumberSpace), NumberSpace)
        u == Ungrouped(Unsigned(t))
    IN  IF Grouped(Unsigned(t)) /\ IsNumeral(u) /\ Len(u) <= MaxStrDigits
        THEN Converted(Integer(Minus(t), BigOfDigits(Significant(u))))
        ELSE NotConverted

\* float(s): an optional sign and inf, infinity or nan in any case, or digits
\* with an optional point and an optional exponent
FloatOfString(s) ==
    LET t        == RStrip(LStrip(s, NumberSpace), NumberSpace)
        body     == Unsigned(t)
        u        == Ungrouped(body)
        marks    == {i \in 1..Len(u) : u[i] \in {"e", "E"}}
        mark     == IF marks = {} THEN Len(u) + 1 ELSE CHOOSE i \in marks : TRUE
        mantissa == SubSeq(u, 1, mark - 1)
        exponent == SubSeq(u, mark + 1, Len(u))
        points   == {i \in 1..Len(mantissa) : mantissa[i] = "."}
        point    == IF points = {} THEN Len(mantissa) + 1 ELSE CHOOSE i \in points : TRUE
        whole    == SubSeq(mantissa, 1, point - 1)
        fraction == SubSeq(mantissa, point + 1, Len(mantissa))
        scale    == IF marks = {} THEN 0
                    ELSE (IF Minus(exponent) = 1 THEN -1 ELSE 1) * Small(Unsigned(exponent))
    IN  IF StrLower(body) \in {<<"i", "n", "f">>, <<"i", "n", "f", "i", "n", "i", "t", "y">>}
        THEN Converted(Infinity(Minus(t)))
        ELSE IF StrLower(body) = <<"n", "a", "n">> THEN Converted(NaN)
        ELSE IF /\ Grouped(body)
                /\ Cardinality(marks) <= 1 /\ Cardinality(points) <= 1
                /\ whole \o fraction # <<>>
                /\ \A i \in 1..Len(whole \o fraction) : IsDigit((whole \o fraction)[i])
                /\ marks # {} => IsNumeral(Unsigned(exponent))
        THEN Converted(Decimal(Minus(t), whole \o fraction, scale - Len(fraction)))
        ELSE NotConverted

----------------------------------------------------------------------------
(* Texts.  A text is identified by where it comes from: a string literal   *)
(* of the code, a template of prompts/finance_agent_responses.txt named by *)
(* its key (with the values formatted into it), or the generation          *)
(* capability, whose output is opaque.                                      *)

JAbsent == [t |-> "absent", s |-> <<>>, n |-> 0]    \* the key is not in the object
JStr(chars) == [t |-> "str", s |-> chars, n |-> 0]  \* a JSON string
JNum(k) == [t |-> "num", s |-> <<>>, n |-> k]       \* a JSON number
MISSING == JStr(<<"M", "I", "S", "S", "I", "N", "G">>)

Text(src, key) == [src |-> src, key |-> key, car_name |-> JAbsent, enganche |-> JAbsent]
Literal(string) == Text("literal", string)
Generated(by) == Text("llm", by)
FinanceResponse(key) == Text("finance_responses", key)

NoText == Text("none", "")
NoPlan == [none |-> TRUE]       \* financing_plan is None

----------------------------------------------------------------------------
(* The capabilities' outcomes: what the environment may answer.            *)

MaxPad == 1         \* whitespace characters around the classifier's word
MaxCatalog == 2     \* cars in the catalog

\* what the classifier model may answer, before padding
ClassifierWords == {
    <<"G", "E", "N", "E", "R", "A", "L">>,
    <<"C", "A", "T", "A", "L", "O", "G", "_", "S", "E", "A", "R", "C", "H">>,
    <<"F", "I", "N", "A", "N", "C", "E", "_", "C", "A", "L", "C", "U", "L", "A", "T", "I", "O", "N">>,
    <<"g", "e", "n", "e", "r", "a", "l">>,
    <<"C", "a", "t", "a", "l", "o", "g", "_", "S", "e", "a", "r", "c", "h">>,
    <<"f", "i", "n", "a", "n", "c", "e", "_", "c", "a", "l", "c", "u", "l", "a", "t", "i", "o", "n">>,
    <<"M", "A", "Y", "B", "E">>,
    <<>>,
    <<"G", "E", "N", "E", "R", "A", "L", ".">>,
    <<"C", "A", "T", "A", "L", "O", "G", " ", "S", "E", "A", "R", "C", "H">>,
    <<"[", "'", "G", "E", "N", "E", "R", "A", "L", "'", "]">>,
    <<"G", "É", "N", "É", "R", "A", "L">>,
    <<"g", "e", "n", "e", "r", "a", "l", "ß">>}
PadChars == {" ", "\n", "U+00A0"}
Pads == UNION {[1..k -> PadChars] : k \in 0..MaxPad}

CallRaises == [kind |-> "raise", chars |-> <<>>]
CallReturns(chars) == [kind |-> "text", chars |-> chars]
NotCalled == [kind |-> "not called", chars |-> <<>>]

\* result.content of the classifier call, or the call raising
ClassifierOutcomes ==
    {CallRaises} \cup {CallReturns(l \o w \o t) : l \in Pads, w \in ClassifierWords, t \in Pads}

\* a generation call whose text is not inspected: it raises or returns text
GenerationOutcomes == {"raise", "text"}

\* catalog_service.Car; price in centavos
Car(id, marca, modelo, year, price) ==
    [id |-> id, marca |-> marca, modelo |-> modelo, year |-> year, price |-> price]
CarList == <<Car("1", "Honda", "Civic", 2020, 250000 * 100),
             Car("2", "Chevrolet", "Aveo", 2017, 0),
             Car("3", "Volkswagen", "Jetta", 2019, 180000 * 100),
             Car("4", "Toyota", "Corolla", 2019, 100000 * 100)>>
Catalogs == {SubSeq(CarList, 1, k) : k \in 0..MaxCatalog}

\* the orders in which cosine similarity may rank n cars
Rankings(n) == {r \in [1..n -> 1..n] : \A i, j \in 1..n : r[i] = r[j] => i = j}

SearchRaises == [kind |-> "raise", ranking |-> <<>>]
SearchRanks(r) == [kind |-> "ranking", ranking |-> r]
SearchOutcomes(cars) == {SearchRaises} \cup {SearchRanks(r) : r \in Rankings(Len(cars))}

\* SemanticCatalogSearchService.search_by_text: the top_k cars of the ranking
SearchByText(cars, ranking, top_k) ==
    [i \in 1..Min(top_k, Len(cars)) |-> cars[ranking[i]]]

----------------------------------------------------------------------------
(* application/agents: each execute returns the keys it updates in the     *)
(* AgentState; the model adds the capability calls that failed, the        *)
(* catalog lookups and the engine calls it made.                           *)

HandlerResult(update, failedCalls, looked, engine) ==
    [update |-> update, failed |-> failedCalls, lookups |-> looked, engineCalls |-> engine]

valid_intents == {"GENERAL", "CATALOG_SEARCH", "FINANCE_CALCULATION"}

\* ClassifyIntentAgent.execute
ClassifyKeepsUnknown(outcome) ==
    IF outcome.kind = "raise"
    THEN HandlerResult([intent |-> "GENERAL"], {"classifier"}, <<>>, <<>>)
    ELSE HandlerResult([intent |-> Join(StrUpper(Strip(outcome.chars)))], {}, <<>>, <<>>)
ClassifyExecute(outcome) ==
    IF outcome.kind = "raise"
    THEN HandlerResult([intent |-> "GENERAL"], {"classifier"}, <<>>, <<>>)
    ELSE LET intent == Join(StrUpper(Strip(outcome.chars)))
         IN  HandlerResult(
                 [intent |-> IF intent \notin valid_intents THEN "GENERAL" ELSE intent],
                 {}, <<>>, <<>>)

GeneralFallback == Literal("Disculpa, ¿podrías reformular tu pregunta?")
CatalogFallback == Literal("Disculpa, tuve un problema al buscar en el catálogo.")
PipelineFallback == Literal("Lo siento, tuve un problema procesando tu solicitud. ")

\* GeneralAgent.execute
GeneralSurfacesError(generation) ==
    IF generation = "raise"
    THEN HandlerResult([response |-> Text("exception", "general_agent")],
                       {"generation"}, <<>>, <<>>)
    ELSE HandlerResult([response |-> Generated("general_agent")], {}, <<>>, <<>>)
GeneralExecute(generation) ==
    IF generation = "raise"
    THEN HandlerResult([response |-> GeneralFallback], {"generation"}, <<>>, <<>>)
    ELSE HandlerResult([response |-> Generated("general_agent")], {}, <<>>, <<>>)

CatalogFailure(what) ==
    HandlerResult([response |-> CatalogFallback, cars |-> <<>>, catalog_context |-> ""],
                  {what}, <<>>, <<>>)

\* CatalogAgent.execute
CatalogExecute(search, generation, cars, top_k) ==
    IF search.kind = "raise" THEN CatalogFailure("search")
    ELSE LET found == SearchByText(cars, search.ranking, top_k)
             catalog_context ==
                 IF found # <<>> THEN "Autos disponibles:"
                 ELSE "No se encontraron autos que coincidan. Sugiere alternativas similares."
         IN  IF generation = "raise" THEN CatalogFailure("generation")
             ELSE HandlerResult([response |-> Generated("catalog_agent"),
                                 cars |-> found,
                                 catalog_context |-> catalog_context],
                                {}, <<>>, <<>>)

----------------------------------------------------------------------------
(* FinanceAgent                                                            *)

MaxTermValue == 7       \* the largest number the extraction gives as term

DefaultYears == 5
TopK == 3               \* ChatService(top_k=3)

\* float(x) and int(x) of a JSON value; reading an absent key raises as well
FloatOf(v) ==
    IF v.t = "num" THEN Converted(FloatOfInt(v.n))
    ELSE IF v.t = "str" THEN FloatOfString(v.s)
    ELSE NotConverted
IntOf(v) ==
    IF v.t = "num" THEN Converted(IntOfInt(v.n))
    ELSE IF v.t = "str" THEN IntOfString(v.s)
    ELSE NotConverted

\* bool(x) of a JSON value, None for an absent key
Truthy(v) == (v.t = "num" /\ v.n # 0) \/ (v.t = "str" /\ v.s # <<>>)

\* what the extraction call may give: the call raises, its content is no
\* JSON, or it is an object with these values
PrecioValues   == {MISSING, JStr(<<"1", "e", "5">>), JNum(300000), JStr(<<"a", "b", "c">>), JAbsent}
EngancheValues == {MISSING, JStr(<<" ", "6", "0", "_", "0", "0", "0", ".", "5", "0">>), JNum(150000),
                   JStr(<<"5", "0", ",", "0", "0", "0">>), JAbsent}
YearsValues    == {MISSING, JAbsent, JStr(<<"+", "4">>), JStr(<<"4", ".", "0">>),
                    JStr([i \in 1..(MaxStrDigits + 1) |-> IF i > MaxStrDigits THEN "4" ELSE "0"])}
                      \cup {JNum(k) : k \in 0..MaxTermValue}
NombreValues   == {MISSING, JStr(<<"c", "i", "v", "i", "c">>), JAbsent}

NoParams == [precio |-> JAbsent, enganche |-> JAbsent, years |-> JAbsent,
             nombre_auto |-> JAbsent]
ExtractionRaises == [kind |-> "raise", params |-> NoParams]
ExtractionNotJson == [kind |-> "not json", params |-> NoParams]
NoExtraction == [kind |-> "not called", params |-> NoParams]
ExtractionOutcomes ==
    {ExtractionRaises, ExtractionNotJson} \cup
    {[kind |-> "params", params |-> q] :
        q \in [precio : PrecioValues, enganche : EngancheValues,
               years : YearsValues, nombre_auto : NombreValues]}

None == [none |-> TRUE, val |-> 0]
Some(x) == [none |-> FALSE, val |-> x]

\* FinanceAgent._search_car_price
SearchCarPrice(search, cars) ==
    IF search.kind = "raise" THEN None
    ELSE LET results == SearchByText(cars, search.ranking, 1)
         IN  IF results # <<>> THEN Some(results[1].price) ELSE None

FinanceStop(key, failedCalls, looked, engine) ==
    HandlerResult([response |-> FinanceResponse(key), financing_plan |-> NoPlan],
                  failedCalls, looked, engine)

\* the except clause of execute
FinanceErrorSurfacesException(failedCalls, looked, engine) ==
    HandlerResult([response |-> Text("exception", ""), financing_plan |-> NoPlan],
                  failedCalls, looked, engine)
FinanceError(failedCalls, looked, engine) ==
    FinanceStop("ERROR_GENERIC", failedCalls, looked, engine)

\* the term handed to the engine
TermYearsKeepsAnyNumber(params) ==
    IF params.years # MISSING /\ Truthy(params.years)
    THEN LET y == IntOf(params.years)
         IN  IF ~y.ok THEN DefaultYears ELSE (IF y.val.s = 1 THEN -1 ELSE 1) * FromBig(y.val.m)
    ELSE DefaultYears
TermYears(params) ==
    IF params.years # MISSING /\ Truthy(params.years)
    THEN LET y == IntOf(params.years)
         IN  IF ~y.ok THEN DefaultYears
             ELSE IF IntCmp(y.val, 3) < 0 \/ IntCmp(y.val, 6) > 0 THEN DefaultYears
             ELSE FromBig(y.val.m)
    ELSE DefaultYears

\* execute once the engine was called: the phrasing
FinanceAfterEngine(call, out, looked, failedCalls, phrasing) ==
    IF out.raised # "none"
    THEN FinanceError(failedCalls \cup {"engine"}, looked, <<call>>)
    ELSE IF phrasing = "raise"
    THEN FinanceError(failedCalls \cup {"generation"}, looked, <<call>>)
    ELSE HandlerResult([response |-> Generated("finance_agent"),
                        financing_plan |-> out.plan],
                       failedCalls, looked, <<call>>)

\* execute once the term and the down payment are converted: the engine
FinanceAfterDownPayment(precio, enganche, years, looked, failedCalls, phrasing, libm) ==
    LET call == [price |-> precio, enganche |-> enganche.val,
                 annual_rate |-> AnnualRate, years |-> years]
    IN  IF ~enganche.ok THEN FinanceError(failedCalls, looked, <<>>)
        ELSE FinanceAfterEngine(call,
                                Calculate(call.price, call.enganche,
                                          Rate(call.annual_rate), call.years, libm),
                                looked, failedCalls, phrasing)

\* execute once the price is known: term, down payment, engine, phrasing
FinanceAfterPrice(params, precio, looked, failedCalls, phrasing, libm) ==
    FinanceAfterDownPayment(precio, FloatOf(params.enganche), TermYears(params),
                            looked, failedCalls, phrasing, libm)

\* execute once the down payment is known to be given: the price
FinanceResolvePriceSkipsNotFound(params, search, phrasing, cars, libm) ==
    IF params.precio # MISSING
    THEN LET precio == FloatOf(params.precio)
         IN  IF ~precio.ok THEN FinanceError({}, <<>>, <<>>)
             ELSE FinanceAfterPrice(params, precio.val, <<>>, {}, phrasing, libm)
    ELSE IF params.nombre_auto # MISSING /\ params.nombre_auto.t # "absent"
    THEN LET precio == SearchCarPrice(search, cars)
             looked == <<[car_name |-> params.nombre_auto, price |-> precio]>>
             failedCalls == IF search.kind = "raise" THEN {"search"} ELSE {}
         IN  IF ~precio.none /\ precio.val # 0
             THEN FinanceAfterPrice(params, Pesos(precio.val), looked, failedCalls,
                                    phrasing, libm)
             ELSE FinanceStop("MISSING_PRICE", failedCalls, looked, <<>>)
    ELSE FinanceStop("MISSING_PRICE", {}, <<>>, <<>>)
FinanceResolvePrice(params, search, phrasing, cars, libm) ==
    IF params.precio # MISSING
    THEN LET precio == FloatOf(params.precio)
         IN  IF ~precio.ok THEN FinanceError({}, <<>>, <<>>)
             ELSE FinanceAfterPrice(params, precio.val, <<>>, {}, phrasing, libm)
    ELSE IF params.nombre_auto # MISSING
    THEN IF params.nombre_auto.t = "absent" THEN FinanceError({}, <<>>, <<>>)
         ELSE
         LET precio == SearchCarPrice(search, cars)
             looked == <<[car_name |-> params.nombre_auto, price |-> precio]>>
             failedCalls == IF search.kind = "raise" THEN {"search"} ELSE {}
         IN  IF ~precio.none /\ precio.val # 0
             THEN FinanceAfterPrice(params, Pesos(precio.val), looked, failedCalls,
                                    phrasing, libm)
             ELSE IF params.enganche.t = "absent"
                  THEN FinanceError(failedCalls, looked, <<>>)
                  ELSE HandlerResult(
                           [response |-> [FinanceResponse("CAR_NOT_FOUND") EXCEPT
                                              !.car_name = params.nombre_auto,
                                              !.enganche = params.enganche],
                            financing_plan |-> NoPlan],
                           failedCalls, looked, <<>>)
    ELSE FinanceStop("MISSING_PRICE", {}, <<>>, <<>>)

\* execute once the extraction is parsed: the down payment first
FinanceWithParamsResolvesPriceFirst(params, search, phrasing, cars, libm) ==
    LET r == FinanceResolvePrice(params, search, phrasing, cars, libm)
    IN  IF params.enganche = MISSING
        THEN FinanceStop("MISSING_ENGANCHE", r.failed, r.lookups, r.engineCalls)
        ELSE r
FinanceWithParams(params, search, phrasing, cars, libm) ==
    IF params.enganche = MISSING
    THEN FinanceStop("MISSING_ENGANCHE", {}, <<>>, <<>>)
    ELSE FinanceResolvePrice(params, search, phrasing, cars, libm)

\* FinanceAgent.execute
FinanceExecute(extracted, search, phrasing, cars, libm) ==
    IF extracted.kind = "raise" THEN FinanceError({"generation"}, <<>>, <<>>)
    ELSE IF extracted.kind = "not json" THEN FinanceError({}, <<>>, <<>>)
    ELSE FinanceWithParams(extracted.params, search, phrasing, cars, libm)

----------------------------------------------------------------------------
(* ChatService: the graph and process_message                              *)

\* the parts of the program that take no part in a request to ChatService
NoResponse == [response |-> NoText, success |-> FALSE, returned |-> FALSE]
AgentIdle == kPc = "IDLE" /\ kMessages = <<>> /\ kResult = NoResponse
NoRecommendCall == [arguments |-> <<>>, limit |-> 0]
NotBuilt == [raised |-> "not built", preferences |-> <<>>]
RecommendIdle ==
    /\ carsCache = <<>> /\ recIn = NoRecommendCall /\ recOut = <<>>
    /\ prefs = NotBuilt /\ clock = 0

\* the senders of WhatsApp messages, as Twilio names them in From, and the
\* message bodies, character by character
Froms == {<<"whatsapp:", "+", "1">>, <<"whatsapp:", "+", "2">>}
TaskFroms == Froms \cup {<<"+", "1">>}
Bodies == {<<"a">>, <<" ", "b", " ">>}

\* main.whatsapp_webhook: From.replace("whatsapp:", "").replace("+", "")
UserId(From) ==
    SelectSeq(SelectSeq(From, LAMBDA c : c # "whatsapp:"), LAMBDA c : c # "+")

UserIds == {UserId(f) : f \in TaskFroms}

\* models.ConversationState; last_updated defaults to the instant of
\* construction, which is told apart here by the task that constructs it
ConversationState(user_id, conversation_stage, instant) ==
    [user_id |-> user_id, current_preferences |-> None, interested_cars |-> <<>>,
     conversation_stage |-> conversation_stage, last_updated |-> instant]

\* conversation_storage.get(user_id) for a user without an entry
NoState == ConversationState(<<>>, "", 0)

WebhookIdle ==
    /\ conversations = [f \in Froms |-> 0]
    /\ heap = <<>>
    /\ requests = <<>>
    /\ running = 0
    /\ conversation_storage = [u \in UserIds |-> NoState]
    /\ tasks = <<>>

\* no search call and no catalog load
NoSearchCall == [cars |-> <<>>, query |-> <<>>, car |-> 0, limit |-> 0]
NoSearchResult == [op |-> "none", pc |-> "returned", calls |-> <<>>, scored |-> <<>>,
                   cars |-> <<>>, text |-> NoText, raised |-> ""]
NoCache == [loaded |-> FALSE, cars |-> <<>>]
NoLoad == [called |-> FALSE, raised |-> "", cars |-> <<>>]

SearchIdle == searchIn = NoSearchCall /\ searchOut = NoSearchResult

StoreIdle ==
    /\ source = <<>>
    /\ carHeap = <<>>
    /\ cacheList = NoCache
    /\ callerList = <<>>
    /\ threads = <<>>
    /\ pandasOut = NoLoad

ExtraIdle == AgentIdle /\ RecommendIdle /\ WebhookIdle /\ SearchIdle /\ StoreIdle

initial_state ==
    [intent |-> "", catalog_context |-> "", cars |-> <<>>, response |-> Literal(""),
     final_message |-> Literal(""), financing_plan |-> NoPlan]

\* LangGraph merges the keys a node returns into the state
Merge(old, update) ==
    [k \in DOMAIN old |-> IF k \in DOMAIN update THEN update[k] ELSE old[k]]

routing == [GENERAL |-> "general_agent",
            CATALOG_SEARCH |-> "catalog_agent",
            FINANCE_CALCULATION |-> "finance_agent"]

\* route_by_intent
RouteByIntentAlwaysGeneral(intent) == "general_agent"
RouteByIntent(intent) ==
    IF intent \in DOMAIN routing THEN routing[intent] ELSE "general_agent"

InFlight == {"START", "CLASSIFIED", "DISPATCHED", "HANDLED", "FORMATTED"}

NoFinanceCall ==
    [price |-> 0, enganche |-> 0, annual_rate |-> 0, rate_scale |-> 0, years |-> 0]

Init ==
    /\ catalog \in Catalogs
    /\ pc = "IDLE"
    /\ state = initial_state
    /\ node = ""
    /\ returned = NoText
    /\ clsOut = NotCalled
    /\ extraction = NoExtraction
    /\ lookups = <<>>
    /\ engineCalls = <<>>
    /\ failed = {}
    /\ finIn = NoFinanceCall
    /\ finOut = [raised |-> "not called"]
    /\ ExtraIdle

\* process_message is called: the initial state enters the graph
process_message ==
    /\ pc \in {"IDLE", "DONE"}
    /\ pc' = "START"
    /\ state' = initial_state
    /\ node' = ""
    /\ returned' = NoText
    /\ clsOut' = NotCalled
    /\ extraction' = NoExtraction
    /\ lookups' = <<>>
    /\ engineCalls' = <<>>
    /\ failed' = {}
    /\ UNCHANGED extraVars
    /\ UNCHANGED <<catalog, finIn, finOut>>

\* a node ran: its result is merged and its calls are logged
Apply(r) ==
    /\ state' = Merge(state, r.update)
    /\ failed' = failed \cup r.failed
    /\ lookups' = lookups \o r.lookups
    /\ engineCalls' = engineCalls \o r.engineCalls

classify_intent ==
    /\ pc = "START"
    /\ \E outcome \in ClassifierOutcomes :
        /\ Apply(ClassifyExecute(outcome))
        /\ clsOut' = outcome
    /\ pc' = "CLASSIFIED"
    /\ UNCHANGED extraVars
    /\ UNCHANGED <<catalog, node, returned, extraction, finIn, finOut>>

route_by_intent ==
    /\ pc = "CLASSIFIED"
    /\ node' = RouteByIntent(state.intent)
    /\ clsOut' = NotCalled
    /\ pc' = "DISPATCHED"
    /\ UNCHANGED extraVars
    /\ UNCHANGED <<catalog, state, returned, extraction, lookups, engineCalls,
                   failed, finIn, finOut>>

general_agent ==
    /\ pc = "DISPATCHED" /\ node = "general_agent"
    /\ \E generation \in GenerationOutcomes : Apply(GeneralExecute(generation))
    /\ pc' = "HANDLED"
    /\ UNCHANGED extraVars
    /\ UNCHANGED <<catalog, node, returned, clsOut, extraction, finIn, finOut>>

catalog_agent ==
    /\ pc = "DISPATCHED" /\ node = "catalog_agent"
    /\ \E search \in SearchOutcomes(catalog), generation \in GenerationOutcomes :
        Apply(CatalogExecute(search, generation, catalog, TopK))
    /\ pc' = "HANDLED"
    /\ UNCHANGED extraVars
    /\ UNCHANGED <<catalog, node, returned, clsOut, extraction, finIn, finOut>>

finance_agent ==
    /\ pc = "DISPATCHED" /\ node = "finance_agent"
    /\ \E extracted \in ExtractionOutcomes, search \in SearchOutcomes(catalog),
          phrasing \in GenerationOutcomes, libm \in LibmRoundings :
        /\ Apply(FinanceExecute(extracted, search, phrasing, catalog, libm))
        /\ extraction' = extracted
    /\ pc' = "HANDLED"
    /\ UNCHANGED extraVars
    /\ UNCHANGED <<catalog, node, returned, clsOut, finIn, finOut>>

format_output ==
    /\ pc = "HANDLED"
    /\ state' = [state EXCEPT !.final_message = state.response]
    /\ pc' = "FORMATTED"
    /\ UNCHANGED extraVars
    /\ UNCHANGED <<catalog, node, returned, clsOut, extraction, lookups, engineCalls,
                   failed, finIn, finOut>>

\* the graph reached END: process_message returns final_message
graph_end ==
    /\ pc = "FORMATTED"
    /\ returned' = state.final_message
    /\ pc' = "DONE"
    /\ UNCHANGED extraVars
    /\ UNCHANGED <<catalog, state, node, clsOut, extraction, lookups, engineCalls,
                   failed, finIn, finOut>>

\* graph.invoke raises: the except clause of process_message answers
graph_invoke_raises ==
    /\ pc \in InFlight
    /\ returned' = PipelineFallback
    /\ pc' = "DONE"
    /\ UNCHANGED extraVars
    /\ UNCHANGED <<catalog, state, node, clsOut, extraction, lookups, engineCalls,
                   failed, finIn, finOut>>

Next ==
    \/ process_message
    \/ classify_intent
    \/ route_by_intent
    \/ general_agent
    \/ catalog_agent
    \/ finance_agent
    \/ format_output
    \/ graph_end
    \/ graph_invoke_raises

Spec == Init /\ [][Next]_vars

----------------------------------------------------------------------------
(* SpecFinance: the engine applied to a grid of arguments.                 *)

MaxYears   == 8
MaxPriceK  == 3
MaxRateK   == 3
PriceUnit  == 100000 * 100      \* 100,000.00 MXN
RateUnit   == 5 * 100           \* 0.05

Prices       == {PriceUnit * k : k \in 1..MaxPriceK}
DownPayments == {0, 1, 60000 * 100, PriceUnit - 1, PriceUnit, PriceUnit + PriceUnit \div 2}
Rates        == {0, 1} \cup {RateUnit * k : k \in 1..MaxRateK}
Years        == 0..MaxYears

\* annual_rate is any float: the rate of b basis points, and the rate
\* b * 10^-15 written with the same digits (rate_scale = 11)
RateScales   == {0, 11}
RateAt(b, scale) == Quotient(0, ToBig(b), 0, PowerOfTen(4 + scale), 0)

NoResult == [raised |-> "not called"]

\* the arguments of one call, drawn from the grid
InitFinance ==
    /\ finIn \in [price : Prices, enganche : DownPayments,
                  annual_rate : Rates, rate_scale : RateScales, years : Years]
    /\ finOut = NoResult
    /\ catalog = <<>>
    /\ pc = "IDLE"
    /\ state = initial_state
    /\ node = ""
    /\ returned = NoText
    /\ clsOut = NotCalled
    /\ extraction = NoExtraction
    /\ lookups = <<>>
    /\ engineCalls = <<>>
    /\ failed = {}
    /\ ExtraIdle

CallCalculate ==
    /\ finOut = NoResult
    /\ \E libm \in LibmRoundings :
        finOut' = Calculate(Pesos(finIn.price), Pesos(finIn.enganche),
                            RateAt(finIn.annual_rate, finIn.rate_scale), finIn.years, libm)
    /\ UNCHANGED extraVars
    /\ UNCHANGED <<finIn, chatVars>>

NextFinance == CallCalculate

SpecFinance == InitFinance /\ [][NextFinance]_vars

----------------------------------------------------------------------------
(* Claims about the financing engine (SpecFinance).                        *)

Called == finOut # NoResult
ValidTerm == finIn.years \in 3..6

\* C3: calculate raises the term-range error, and returns no plan, for every
\* term below 3 or above 6 whatever the other arguments are, and does not
\* raise it for a term in 3..6.
C3_TermRangeRejected ==
    Called => /\ (~ValidTerm => finOut = TermError)
              /\ (ValidTerm => finOut.raised # "ValueError")
C3_Witness ==
    /\ finIn.years = 7 /\ finIn.enganche < finIn.price /\ finIn.annual_rate = 1000
    /\ finOut = TermError

\* C4 (as claimed): calculate with a down payment greater than the price
\* fails instead of returning a plan.
C4_DownPaymentAbovePriceFails ==
    (Called /\ finIn.enganche > finIn.price) => finOut.raised = "ValueError"

\* the results of a plan agree up to the rounding of its two-decimal values:
\* half a centavo for each of the n monthly payments and for the total
RoundingSlack(n) == n \div 2 + 1

\* the amounts of a plan in centavos
InCents(plan) ==
    FinancingPlan(Cents(plan.financed_amount), Cents(plan.monthly_payment),
                  Cents(plan.total_paid), Cents(plan.total_interest), plan.months)

PlanIdentities(plan, price, enganche, years) ==
    /\ plan.months = 12 * years
    /\ plan.financed_amount = price - enganche
    /\ Abs(plan.total_paid - (plan.monthly_payment * plan.months + enganche))
         <= RoundingSlack(plan.months)
    /\ Abs(plan.total_interest
           - (plan.monthly_payment * plan.months - plan.financed_amount))
         <= RoundingSlack(plan.months)
    /\ Abs(plan.total_interest - (plan.total_paid - price)) <= 1

StandardCase ==
    Called /\ ValidTerm /\ finIn.annual_rate > 0 /\ finIn.enganche < finIn.price

\* C5 (as claimed): for every term in 3..6, every annual rate > 0 and every
\* down payment below the price, calculate returns a plan that satisfies the
\* identities, and its monthly payment and total interest are greater than 0.
C5_IdentitiesAndPositive ==
    StandardCase =>
        /\ finOut.raised = "none"
        /\ PlanIdentities(InCents(finOut.plan), finIn.price, finIn.enganche, finIn.years)
        /\ Less(Zero(0), finOut.plan.total_interest)
        /\ Less(Zero(0), finOut.plan.monthly_payment)

\* C6: for a valid term and price - down payment <= 0, calculate returns the
\* zero plan, whose total_paid is the down payment.
C6_ZeroPlan ==
    (Called /\ ValidTerm /\ finIn.price - finIn.enganche <= 0) =>
        finOut = Returned(FinancingPlan(Zero(0), Zero(0), Pesos(finIn.enganche), Zero(0), 0))
C6_Witness ==
    /\ finIn = [price |-> PriceUnit, enganche |-> PriceUnit,
                annual_rate |-> 1000, rate_scale |-> 0, years |-> 5]
    /\ finOut.raised = "none"
    /\ InCents(finOut.plan) = FinancingPlan(0, 0, PriceUnit, 0, 0)

\* C7 (as claimed): with rate 0, a valid term and a positive financed amount
\* the engine returns a plan with monthly_payment = financed / (12 * years)
\* (to the centavo) and total_interest = 0, and raises nothing.
C7_ZeroRatePlan ==
    (Called /\ ValidTerm /\ finIn.annual_rate = 0 /\ finIn.enganche < finIn.price) =>
        /\ finOut.raised = "none"
        /\ Abs(Cents(finOut.plan.monthly_payment) * 12 * finIn.years
               - (finIn.price - finIn.enganche)) <= RoundingSlack(12 * finIn.years)
        /\ IsZero(finOut.plan.total_interest)

----------------------------------------------------------------------------
(* Claims about one request (Spec).                                        *)

Classified == pc \in {"CLASSIFIED", "DISPATCHED", "HANDLED", "FORMATTED", "DONE"}
            /\ state.intent # ""

\* C1: ClassifyIntentAgent.execute yields one of the three intents: the
\* label itself when the classifier's text, trimmed and uppercased, is a
\* label, and GENERAL for any other text and when the call raises.
C1_IntentIsLabelOrGeneral ==
    /\ Classified => state.intent \in {"GENERAL", "CATALOG_SEARCH", "FINANCE_CALCULATION"}
    /\ pc = "CLASSIFIED" =>
        /\ clsOut.kind \in {"raise", "text"}
        /\ clsOut.kind = "raise" => state.intent = "GENERAL"
        /\ clsOut.kind = "text" =>
             LET word == Join(StrUpper(Strip(clsOut.chars)))
             IN  IF word \in {"GENERAL", "CATALOG_SEARCH", "FINANCE_CALCULATION"}
                 THEN state.intent = word
                 ELSE state.intent = "GENERAL"
        /\ clsOut = CallReturns(<<"M", "A", "Y", "B", "E">>) => state.intent = "GENERAL"
        /\ clsOut = CallReturns(<<"C", "a", "t", "a", "l", "o", "g", "_", "S", "e", "a", "r", "c", "h">>) => state.intent = "CATALOG_SEARCH"
C1_Witness ==
    /\ pc = "CLASSIFIED"
    /\ clsOut = CallReturns(<<"U+00A0">> \o <<"f", "i", "n", "a", "n", "c", "e", "_", "c", "a", "l", "c", "u", "l", "a", "t", "i", "o", "n">> \o <<"\n">>)
    /\ state.intent = "FINANCE_CALCULATION"

IsText(t) == t.src \in {"literal", "llm", "finance_responses"}

\* the fallback messages of the handlers and of the pipeline
IsFallback(t) ==
    \/ t \in {GeneralFallback, CatalogFallback, PipelineFallback}
    \/ t.src = "finance_responses" /\ t.key \in {"ERROR_GENERIC", "CAR_NOT_FOUND"}

\* C2 (as claimed): process_message returns a text, and when the classifier
\* call, a handler's generation call or the catalog search failed, that text
\* is a fallback message of the handler or of the pipeline.
C2_FallbackOnAnyFailure ==
    pc = "DONE" => /\ IsText(returned)
                   /\ failed # {} => IsFallback(returned)

\* C2 (amended): process_message returns a text; when a handler's generation
\* call or the catalog search failed, it is the fallback message of that
\* handler or of the pipeline; when only the classifier call failed, the
\* request is answered as GENERAL, by the general handler's own text.
C2_FallbackOnHandlerFailure ==
    pc = "DONE" =>
        /\ IsText(returned)
        /\ failed \cap {"generation", "search"} # {} =>
            /\ IsFallback(returned)
            /\ node = "general_agent" => returned \in {GeneralFallback, PipelineFallback}
            /\ node = "catalog_agent" => returned \in {CatalogFallback, PipelineFallback}
            /\ node = "finance_agent" =>
                  returned.src = "finance_responses" \/ returned = PipelineFallback
        /\ failed = {"classifier"} =>
            /\ node \in {"", "general_agent"}
            /\ returned \in {Generated("general_agent"), PipelineFallback}
C2_Witness ==
    /\ pc = "DONE"
    /\ node = "catalog_agent"
    /\ failed = {"classifier", "search"} \/ failed = {"search"}
    /\ returned = CatalogFallback

FinanceHandled ==
    /\ pc \in {"HANDLED", "FORMATTED", "DONE"}
    /\ node = "finance_agent"
    /\ extraction.kind = "params"

Given(v) == v # MISSING /\ v.t # "absent"

\* C8 (as claimed): every engine call of the finance handler has a term in
\* 3..6 and a down payment not above the price, and when the extracted down
\* payment is above the price the handler returns a prompt with no plan and
\* calls no engine.
C8_EngineCallsAreValid ==
    /\ \A i \in 1..Len(engineCalls) :
        /\ engineCalls[i].years \in 3..6
        /\ LessEq(engineCalls[i].enganche, engineCalls[i].price)
    /\ (/\ FinanceHandled
        /\ Given(extraction.params.precio) /\ FloatOf(extraction.params.precio).ok
        /\ Given(extraction.params.enganche) /\ FloatOf(extraction.params.enganche).ok
        /\ Less(FloatOf(extraction.params.precio).val,
                FloatOf(extraction.params.enganche).val))
       => (state.financing_plan = NoPlan /\ engineCalls = <<>>)

\* C9: when the extracted down payment is MISSING the finance handler returns
\* the request for the down payment with no plan, whatever the other fields
\* are, having made no catalog lookup and no engine call.
C9_MissingDownPaymentStops ==
    (FinanceHandled /\ extraction.params.enganche = MISSING) =>
        /\ state.response = FinanceResponse("MISSING_ENGANCHE")
        /\ state.financing_plan = NoPlan
        /\ lookups = <<>>
        /\ engineCalls = <<>>
C9_Witness ==
    /\ pc = "HANDLED" /\ node = "finance_agent"
    /\ extraction.kind = "params"
    /\ extraction.params.enganche = MISSING
    /\ extraction.params.precio = MISSING
    /\ extraction.params.nombre_auto = JStr(<<"c", "i", "v", "i", "c">>)
    /\ state.response = FinanceResponse("MISSING_ENGANCHE")
    /\ lookups = <<>>

PriceByName ==
    /\ FinanceHandled
    /\ Given(extraction.params.enganche)
    /\ extraction.params.precio = MISSING

CarNotFound ==
    /\ state.response = [FinanceResponse("CAR_NOT_FOUND") EXCEPT
                            !.car_name = extraction.params.nombre_auto,
                            !.enganche = extraction.params.enganche]
    /\ state.financing_plan = NoPlan
    /\ engineCalls = <<>>

LookedUpByName ==
    /\ Len(lookups) = 1
    /\ lookups[1].car_name = extraction.params.nombre_auto

MissingPricePrompt ==
    /\ state.response = FinanceResponse("MISSING_PRICE")
    /\ state.financing_plan = NoPlan
    /\ lookups = <<>>
    /\ engineCalls = <<>>

\* C10 (as claimed): with the price MISSING and a car name given, the handler
\* looks the name up; a price found is the price of the engine call, and when
\* nothing is found the handler returns the not-found response with the name
\* and the down payment, no plan and no engine call; with price and name both
\* MISSING it returns the missing-price prompt without lookup or engine call.
C10_PriceFoundReachesEngine ==
    PriceByName =>
        /\ Given(extraction.params.nombre_auto) =>
            /\ LookedUpByName
            /\ ~lookups[1].price.none =>
                 (Len(engineCalls) = 1
                  /\ engineCalls[1].price = Pesos(lookups[1].price.val))
            /\ lookups[1].price.none => CarNotFound
        /\ extraction.params.nombre_auto = MISSING => MissingPricePrompt

\* C10 (amended): as claimed, except that a price found reaches the engine
\* only when it is not 0 and the down payment converts to a number, and a
\* price of 0 is answered like a car that was not found.
C10_NonZeroPriceReachesEngine ==
    PriceByName =>
        /\ Given(extraction.params.nombre_auto) =>
            /\ LookedUpByName
            /\ (/\ ~lookups[1].price.none /\ lookups[1].price.val # 0
                /\ FloatOf(extraction.params.enganche).ok) =>
                 (Len(engineCalls) = 1
                  /\ engineCalls[1].price = Pesos(lookups[1].price.val))
            /\ (lookups[1].price.none \/ lookups[1].price.val = 0) => CarNotFound
        /\ extraction.params.nombre_auto = MISSING => MissingPricePrompt
C10_Witness ==
    /\ PriceByName /\ pc = "HANDLED"
    /\ extraction.params.nombre_auto = JStr(<<"c", "i", "v", "i", "c">>)
    /\ lookups = <<[car_name |-> JStr(<<"c", "i", "v", "i", "c">>), price |-> Some(250000 * 100)]>>
    /\ Len(engineCalls) = 1 /\ engineCalls[1].price = FloatOfInt(250000)
    /\ state.financing_plan # NoPlan

PriceAvailable ==
    \/ /\ Given(extraction.params.precio)
       /\ FloatOf(extraction.params.precio).ok
    \/ /\ extraction.params.precio = MISSING
       /\ Len(lookups) = 1 /\ ~lookups[1].price.none /\ lookups[1].price.val # 0

DownPaymentAvailable ==
    /\ Given(extraction.params.enganche)
    /\ FloatOf(extraction.params.enganche).ok

\* the term the claim expects for an extracted value: the value when it is
\* the number or a numeral of 3, 4, 5 or 6, and 5 otherwise
TermWrittenAs(v, k) ==
    v \in {JNum(k), JStr(<<Digits[k + 1]>>), JStr(<<"+", Digits[k + 1]>>)}
ExpectedTerm(v) ==
    IF \E k \in 3..6 : TermWrittenAs(v, k)
    THEN CHOOSE k \in 3..6 : TermWrittenAs(v, k)
    ELSE 5

\* C11: with price and down payment available the finance handler calls the
\* engine once, with the extracted term when it is an integer in 3..6 and
\* with 5 when it is MISSING, absent, unparseable or out of range; unless the
\* phrasing call fails, it answers with the plan, whatever the term value.
C11_TermDefaultsToFive ==
    (FinanceHandled /\ PriceAvailable /\ DownPaymentAvailable) =>
        /\ Len(engineCalls) = 1
        /\ engineCalls[1].years = ExpectedTerm(extraction.params.years)
        /\ "generation" \notin failed =>
            /\ state.response = Generated("finance_agent")
            /\ state.financing_plan # NoPlan
            /\ state.financing_plan.months \in {0, 12 * engineCalls[1].years}
C11_Witness ==
    /\ FinanceHandled /\ PriceAvailable /\ DownPaymentAvailable
    /\ extraction.params.years = JNum(MaxTermValue)
    /\ Len(engineCalls) = 1 /\ engineCalls[1].years = 5
    /\ state.financing_plan # NoPlan
    /\ state.financing_plan.months = 60

\* the places of FinanceAgent.execute where an exception is raised
ExtractionFails == extraction.kind \in {"raise", "not json"}
PriceDoesNotConvert ==
    /\ extraction.kind = "params"
    /\ extraction.params.enganche # MISSING
    /\ extraction.params.precio # MISSING
    /\ ~FloatOf(extraction.params.precio).ok
CarNameFieldLacks ==
    /\ extraction.kind = "params"
    /\ extraction.params.enganche # MISSING
    /\ extraction.params.precio = MISSING
    /\ extraction.params.nombre_auto.t = "absent"
DownPaymentDoesNotConvert ==
    /\ extraction.kind = "params"
    /\ extraction.params.enganche # MISSING
    /\ PriceAvailable
    /\ ~FloatOf(extraction.params.enganche).ok
DownPaymentFieldLacks ==
    /\ extraction.kind = "params"
    /\ extraction.params.enganche.t = "absent"
    /\ extraction.params.precio = MISSING
    /\ Len(lookups) = 1
PhrasingOrExtractionCallFails == "generation" \in failed
EngineRaises == Len(engineCalls) = 1 /\ "engine" \in failed

\* C12: when the extraction call fails, its output is no JSON or lacks a
\* field that is read, a number does not convert, the engine raises or the
\* phrasing call fails, the finance handler returns the generic recovery
\* response with no plan; a plan is returned only after an engine call that
\* returned and a phrasing call that succeeded.
C12_FailureGivesGenericRecovery ==
    (pc \in {"HANDLED", "FORMATTED", "DONE"} /\ node = "finance_agent"
        /\ extraction.kind # "not called") =>
        /\ (\/ ExtractionFails \/ PriceDoesNotConvert \/ CarNameFieldLacks
            \/ DownPaymentDoesNotConvert \/ DownPaymentFieldLacks
            \/ PhrasingOrExtractionCallFails \/ EngineRaises) =>
              /\ state.response = FinanceResponse("ERROR_GENERIC")
              /\ state.financing_plan = NoPlan
        /\ state.response.src \in {"finance_responses", "llm"}
        /\ state.financing_plan # NoPlan =>
              /\ Len(engineCalls) = 1
              /\ ~EngineRaises
              /\ "generation" \notin failed
              /\ state.response = Generated("finance_agent")
C12_Witness ==
    /\ pc = "HANDLED" /\ node = "finance_agent"
    /\ extraction.kind = "params"
    /\ Len(engineCalls) = 1
    /\ failed = {"generation"}
    /\ state.response = FinanceResponse("ERROR_GENERIC")
    /\ state.financing_plan = NoPlan

----------------------------------------------------------------------------
(* KavakCommercialAgent (SpecAgent): one message through the tool-calling  *)
(* graph  agent -> [tools -> agent]* -> END.                                *)

MaxToolCalls == 2       \* the most tool calls the model asks for while one message is processed

\* a text made of a fixed prefix followed by str(e) of the exception caught
ExceptionText(prefix) == Text("exception", prefix)
\* a text a tool formats from the data it found
ToolText(tool) == Text("tool", tool)

ChatIdle ==
    /\ catalog = <<>> /\ pc = "IDLE" /\ state = initial_state /\ node = ""
    /\ returned = NoText /\ clsOut = NotCalled /\ extraction = NoExtraction
    /\ lookups = <<>> /\ engineCalls = <<>> /\ failed = {}
FinanceIdle == finIn = NoFinanceCall /\ finOut = NoResult

\* the tools bound to the model
ToolNames == {"get_car_recommendations", "calculate_financing", "search_cars", "get_kavak_info"}

\* a tool call of an AI message: the name asked for, the arguments, and
\* whether the tool's args_schema accepts them (get_kavak_info has none)
ToolCall(name, args, accepted) == [name |-> name, args |-> args, accepted |-> accepted]

NoArgs == [car_price |-> 0, down_payment |-> 0, term_years |-> 0]
ToolCalls ==
    {ToolCall(t, NoArgs, TRUE) :
        t \in {"get_car_recommendations", "search_cars", "get_kavak_info", "no_such_tool"}}
    \cup {ToolCall(t, NoArgs, FALSE) :
            t \in {"get_car_recommendations", "calculate_financing", "search_cars"}}
    \cup {ToolCall("calculate_financing", a, TRUE) :
            a \in [car_price : {200000 * 100}, down_payment : {100000 * 100, 300000 * 100},
                   term_years : {2, 4, 7}]}

\* response.tool_calls: no call, or up to n calls in one message
CallLists(n) == UNION {[1..k -> ToolCalls] : k \in 0..n}

HumanMessage == [type |-> "human", content |-> Literal("message"), tool_calls |-> <<>>]
AIMessage(calls) == [type |-> "ai", content |-> Generated("agent"), tool_calls |-> calls]
ToolMessage(text) == [type |-> "tool", content |-> text, tool_calls |-> <<>>]

\* the tool get_car_recommendations: the service raises, finds nothing, or
\* finds cars
GetCarRecommendations(outcome) ==
    IF outcome = "raise" THEN ExceptionText("Error buscando recomendaciones: ")
    ELSE IF outcome = "none"
    THEN Literal("No se encontraron autos que coincidan con tus preferencias.")
    ELSE ToolText("get_car_recommendations")

\* the tool calculate_financing
CalculateFinancingTool(car_price, down_payment, term_years, outcome) ==
    IF ~(3 <= term_years /\ term_years <= 6)
    THEN Literal("El plazo debe ser entre 3 y 6 años.")
    ELSE IF down_payment > car_price
    THEN Literal("El enganche no puede ser mayor al precio del auto.")
    ELSE IF outcome = "raise" THEN ExceptionText("Error calculando financiamiento: ")
    ELSE ToolText("calculate_financing")

\* the tool search_cars: the search raises, finds nothing, or finds cars
SearchCars(outcome) ==
    IF outcome = "raise" THEN ExceptionText("Error en la búsqueda: ")
    ELSE IF outcome = "none" THEN Text("literal+query", "No encontré autos que coincidan con ")
    ELSE ToolText("search_cars")

GetKavakInfo == Literal("Kavak: Revolucionando la compra de autos usados en México")

ToolOutcomes == {"raise", "none", "found"}

\* ToolNode answers one call: a name that is none of the tools and arguments
\* the schema rejects are answered with an error text, no tool running
RunTool(call, outcome) ==
    IF call.name \notin ToolNames
    THEN Text("literal+name", "Error: {requested_tool} is not a valid tool, try one of [{available_tools}].")
    ELSE IF ~call.accepted THEN ExceptionText("Error: ")
    ELSE IF call.name = "get_car_recommendations" THEN GetCarRecommendations(outcome)
    ELSE IF call.name = "calculate_financing"
    THEN CalculateFinancingTool(call.args.car_price, call.args.down_payment,
                                call.args.term_years, outcome)
    ELSE IF call.name = "search_cars" THEN SearchCars(outcome)
    ELSE GetKavakInfo

\* the tool calls answered so far: every call of an AI message gets a ToolMessage
ToolCallsAnswered == Cardinality({i \in 1..Len(kMessages) : kMessages[i].type = "tool"})

\* the except clause of process_message
AgentError ==
    [response |-> ExceptionText("Error interno del agente: "),
     success |-> FALSE, returned |-> TRUE]

\* process_message builds the state and invokes the graph
agent_process_message ==
    /\ kPc \in {"IDLE", "DONE"}
    /\ kPc' = "AGENT"
    /\ kMessages' = <<HumanMessage>>
    /\ kResult' = NoResponse
    /\ UNCHANGED <<finVars, chatVars, recVars, hookVars, libVars>>

\* node "agent": the model call raises, or its response is appended, with
\* the tool calls it asks for; the calls of one run are at most MaxToolCalls,
\* far from the 25 steps at which the graph raises GraphRecursionError
call_model ==
    /\ kPc = "AGENT"
    /\ \/ /\ kPc' = "DONE"
          /\ kResult' = AgentError
          /\ UNCHANGED kMessages
       \/ /\ \E calls \in CallLists(MaxToolCalls - ToolCallsAnswered) :
                 kMessages' = Append(kMessages, AIMessage(calls))
          /\ kPc' = "ROUTE"
          /\ UNCHANGED kResult
    /\ UNCHANGED <<finVars, chatVars, recVars, hookVars, libVars>>

\* the conditional edge: to the tools when the last message asks for them,
\* otherwise END, where process_message returns the last AI message
route ==
    /\ kPc = "ROUTE"
    /\ IF kMessages[Len(kMessages)].tool_calls # <<>>
       THEN /\ kPc' = "TOOLS"
            /\ UNCHANGED kResult
       ELSE /\ kPc' = "DONE"
            /\ LET ai == SelectSeq(kMessages, LAMBDA m : m.type = "ai")
               IN  kResult' = [response |-> IF ai # <<>> THEN ai[Len(ai)].content
                                            ELSE Literal("Lo siento, no pude procesar tu solicitud."),
                               success |-> TRUE, returned |-> TRUE]
    /\ UNCHANGED <<kMessages, finVars, chatVars, recVars, hookVars, libVars>>

\* node "tools": ToolNode answers every call of the last message, one
\* ToolMessage for each, in the order of the calls
tools ==
    /\ kPc = "TOOLS"
    /\ LET calls == kMessages[Len(kMessages)].tool_calls
       IN  \E outcomes \in [1..Len(calls) -> ToolOutcomes] :
               kMessages' = kMessages \o
                   [i \in 1..Len(calls) |-> ToolMessage(RunTool(calls[i], outcomes[i]))]
    /\ kPc' = "AGENT"
    /\ UNCHANGED <<kResult, finVars, chatVars, recVars, hookVars, libVars>>

InitAgent ==
    ChatIdle /\ FinanceIdle /\ AgentIdle /\ RecommendIdle /\ WebhookIdle /\ SearchIdle /\ StoreIdle

NextAgent == agent_process_message \/ call_model \/ route \/ tools

SpecAgent == InitAgent /\ [][NextAgent]_vars

\* C13 (as claimed): every text delivered on a failure path is a fixed
\* message without exception text, by ChatService.process_message and by
\* KavakCommercialAgent.process_message.
C13_FailureTextsAreFixed ==
    /\ (pc = "DONE" /\ failed # {}) => returned.src # "exception"
    /\ (kPc = "DONE" /\ ~kResult.success) =>
          (kResult.response.src = "literal")

\* what process_message handed back holds the field, with the value the
\* graph's final state has for it
Carries(field) ==
    /\ field \in DOMAIN returned
    /\ returned[field] = state[field]

\* C14 (as claimed): the result of processing one message carries the
\* classified intent, the cars found when the catalog handler ran and the
\* financing plan when the finance handler computed one.
C14_ResultCarriesIntentAndSideData ==
    (pc = "DONE" /\ state.final_message # Literal("") /\ returned = state.final_message) =>
        /\ Carries("intent")
        /\ (node = "catalog_agent" /\ state.cars # <<>>) => Carries("cars")
        /\ (node = "finance_agent" /\ state.financing_plan # NoPlan)
              => Carries("financing_plan")

----------------------------------------------------------------------------
(* RecommendationService over CSVCarRepository (SpecRecommend).  Prices    *)
(* are whole pesos below 2 * 10^8, mileage is in km; a score is a float.   *)

MaxCars == 3            \* the most records in the catalog
MaxLimit == 2           \* the largest limit asked for

\* sub in s, for strings
Contains(s, sub) ==
    \E i \in 0..(Len(s) - Len(sub)) : SubSeq(s, i + 1, i + Len(sub)) = sub

\* models.Car: the fields the recommendation reads; bluetooth and car_play
\* are "True", "False" or "None"
CarRecord(stock_id, make, year, price, km, bluetooth, car_play) ==
    [stock_id |-> stock_id, make |-> make, year |-> year, price |-> price,
     km |-> km, bluetooth |-> bluetooth, car_play |-> car_play]

CarPool ==
    { CarRecord("1", <<"H", "o", "n", "d", "a">>, 2022, 200000, 30000, "True", "True"),
      CarRecord("2", <<"H", "o", "n", "d", "a">>, 2022, 200000, 80000, "True", "True"),
      CarRecord("3", <<"T", "o", "y", "o", "t", "a">>, 2019, 160000, 60000, "True", "None"),
      CarRecord("4", <<"N", "i", "s", "s", "a", "n">>, 2024, 260000, 5000, "False", "False") }

\* models.Car with the fields the searches read; price in pesos
FullCar(stock_id, make, model, version, year, price, km, bluetooth, car_play) ==
    [stock_id |-> stock_id, make |-> make, model |-> model, version |-> version,
     year |-> year, price |-> price, km |-> km, bluetooth |-> bluetooth,
     car_play |-> car_play]

Civic(stock_id) ==
    FullCar(stock_id, <<"H", "o", "n", "d", "a">>, <<"C", "i", "v", "i", "c">>, <<"L", "x">>, 2020, 250000, 40000, "True", "True")

\* two records that differ in stock_id only, and two records priced 0
SearchPool ==
    { Civic("1"), Civic("2"),
      FullCar("3", <<"V", "o", "l", "k", "s", "w", "a", "g", "e", "n">>, <<"J", "e", "t", "t", "a">>, <<"G", "l", "i">>, 2021, 0, 20000, "True", "None"),
      FullCar("4", <<"T", "o", "y", "o", "t", "a">>, <<"C", "o", "r", "o", "l", "l", "a">>, <<"B", "a", "s", "e">>, 2019, 0, 60000, "False", "False") }

\* a catalog with more matches than the tool lists, and one whose second
\* record matches a query better than its first
LongCatalog == [i \in 1..6 |-> Civic(<<"1", Digits[i + 1]>>)]
JettaCatalog ==
    << FullCar("5", <<"V", "o", "l", "k", "s", "w", "a", "g", "e", "n">>, <<"J", "e", "t", "t", "a", " ", "G", "l", "i">>, <<"B", "a", "s", "e">>, 2021, 300000, 20000, "True", "None"),
       FullCar("3", <<"V", "o", "l", "k", "s", "w", "a", "g", "e", "n">>, <<"J", "e", "t", "t", "a">>, <<"G", "l", "i">>, 2021, 0, 20000, "True", "None") >>

\* the preferences of a customer who states none
NoPreferences ==
    [min_price |-> None, max_price |-> None, preferred_makes |-> <<>>, max_km |-> None,
     min_year |-> None, max_year |-> None, features_required |-> <<>>]

RECURSIVE SeqsOver(_, _)
\* the sequences without repetition of at most n elements of S
SeqsOver(S, n) ==
    IF n = 0 THEN {<<>>}
    ELSE LET shorter == SeqsOver(S, n - 1)
         IN  shorter \cup
             {Append(p[1], p[2]) :
                 p \in {r \in shorter \X S :
                           /\ Len(r[1]) = n - 1
                           /\ \A i \in 1..Len(r[1]) : r[1][i] # r[2]}}


\* the arguments CustomerPreferences is built from: the price bounds, one of
\* the other bounds or all of them, and the required features
OtherBounds ==
    LET makes == <<<<"h", "o", "n", "d", "a">>, <<"T", "O", "Y", "O", "T", "A">>>>
        none == [preferred_makes |-> <<>>, max_km |-> None, min_year |-> None,
                 max_year |-> None]
    IN  { none,
          [none EXCEPT !.preferred_makes = makes],
          [none EXCEPT !.max_km = Some(60000)],
          [none EXCEPT !.min_year = Some(2020), !.max_year = Some(2022)],
          [preferred_makes |-> makes, max_km |-> Some(60000), min_year |-> Some(2020),
           max_year |-> Some(2022)] }
FeatureLists ==
    { <<>>,
      <<<<"B", "l", "u", "e", "t", "o", "o", "t", "h">>>>,
      <<<<"A", "p", "p", "l", "e", " ", "C", "a", "r", "P", "l", "a", "y">>, <<"G", "P", "S">>>>,
      <<<<"B", "l", "u", "e", "t", "o", "o", "t", "h", " ", "y", " ", "C", "a", "r", "P", "l", "a", "y">>>> }
PreferenceArguments ==
    {[min_price |-> min_price, max_price |-> max_price,
      preferred_makes |-> other.preferred_makes, max_km |-> other.max_km,
      min_year |-> other.min_year, max_year |-> other.max_year,
      features_required |-> features] :
         min_price \in {None, Some(200000)},
         max_price \in {None, Some(0), Some(250000)},
         other \in OtherBounds, features \in FeatureLists}

\* a field with ge= or le= is None or within its bound
AtLeast(field, bound) == field.none \/ field.val >= bound
AtMost(field, bound) == field.none \/ field.val <= bound

\* models.CustomerPreferences(**arguments): the object, or the exception
\* raised.  pydantic calls validate_price_range(cls, v, values) with a
\* ValidationInfo as values, so 'min_price' in values raises TypeError as soon
\* as v, a max_price within its bound, is not 0; TypeError is not collected
\* into a ValidationError
CustomerPreferences(arguments) ==
    [raised |->
         IF ~arguments.max_price.none /\ arguments.max_price.val > 0 THEN "TypeError"
         ELSE IF /\ AtLeast(arguments.min_price, 0)
                 /\ AtLeast(arguments.max_price, 0)
                 /\ AtLeast(arguments.max_km, 0)
                 /\ AtLeast(arguments.min_year, 2000)
                 /\ AtMost(arguments.max_year, 2030)
         THEN ""
         ELSE "ValidationError",
     preferences |-> arguments]

\* "x if kwargs.get(...) else None" of a price of the request: None for a
\* price that is absent or 0 (Decimal(str(x)) keeps the value)
IfSet(price) == IF ~price.none /\ price.val # 0 THEN price ELSE None

\* the arguments the tool get_car_recommendations gives CustomerPreferences:
\* the prices when they are set, "x or []" for the lists (an absent list is
\* written <<>>), max_km and min_year as they are, and max_year=None
ToolPreferences(kwargs) ==
    [min_price |-> IfSet(kwargs.min_price),
     max_price |-> IfSet(kwargs.max_price),
     preferred_makes |-> kwargs.preferred_makes,
     max_km |-> kwargs.max_km,
     min_year |-> kwargs.min_year,
     max_year |-> None,
     features_required |-> kwargs.features]

\* the arguments of the request that CarRecommendationInput has fields for
Kwargs(arguments) ==
    [min_price |-> arguments.min_price, max_price |-> arguments.max_price,
     preferred_makes |-> arguments.preferred_makes, max_km |-> arguments.max_km,
     min_year |-> arguments.min_year, features |-> arguments.features_required]

\* the max_price a caller assigns to the object it built
AssignedPrices == {250000}

\* the preferences a call can be handed: the objects the constructor
\* returns, to the tool or to another caller, and those with max_price
\* assigned afterwards
PreferenceSets ==
    LET given == PreferenceArguments
                     \cup {ToolPreferences(Kwargs(a)) : a \in PreferenceArguments}
        built == {CustomerPreferences(arguments).preferences :
                      arguments \in {a \in given : CustomerPreferences(a).raised = ""}}
    IN  built \cup {[preferences EXCEPT !.max_price = Some(max_price)] :
                       preferences \in built, max_price \in AssignedPrices}

\* one required feature applied to the list
FilterFeature(cars, feature) ==
    LET feature_lower == StrLower(feature)
    IN  IF Contains(feature_lower, <<"b", "l", "u", "e", "t", "o", "o", "t", "h">>)
        THEN SelectSeq(cars, LAMBDA car : car.bluetooth = "True")
        ELSE IF Contains(feature_lower, <<"c", "a", "r", "p", "l", "a", "y">>) \/ Contains(feature_lower, <<"c", "a", "r", " ", "p", "l", "a", "y">>)
        THEN SelectSeq(cars, LAMBDA car : car.car_play = "True")
        ELSE cars

RECURSIVE FilterFeatures(_, _)
FilterFeatures(cars, features) ==
    IF features = <<>> THEN cars
    ELSE FilterFeatures(FilterFeature(cars, Head(features)), Tail(features))

\* the sort key (price, -year, km) of search_cars
RelevanceBefore(a, b) ==
    \/ a.price < b.price
    \/ a.price = b.price /\ a.year > b.year
    \/ a.price = b.price /\ a.year = b.year /\ a.km < b.km

RECURSIVE SortByRelevance(_)
\* list.sort: stable, ascending
SortByRelevance(cars) ==
    IF cars = <<>> THEN <<>>
    ELSE LET sorted == SortByRelevance(SubSeq(cars, 1, Len(cars) - 1))
             last == cars[Len(cars)]
             k == Cardinality({i \in 1..Len(sorted) : ~RelevanceBefore(last, sorted[i])})
         IN  SubSeq(sorted, 1, k) \o <<last>> \o SubSeq(sorted, k + 1, Len(sorted))

\* CSVCarRepository.search_cars
RepositorySearchCarsFiltersPriceOnly(cars, preferences) ==
    LET a == IF ~preferences.min_price.none
             THEN SelectSeq(cars, LAMBDA car : car.price >= preferences.min_price.val) ELSE cars
        b == IF ~preferences.max_price.none
             THEN SelectSeq(a, LAMBDA car : car.price <= preferences.max_price.val) ELSE a
    IN  SortByRelevance(FilterFeatures(b, preferences.features_required))
RepositorySearchCars(cars, preferences) ==
    LET a == IF ~preferences.min_price.none
             THEN SelectSeq(cars, LAMBDA car : car.price >= preferences.min_price.val) ELSE cars
        b == IF ~preferences.max_price.none
             THEN SelectSeq(a, LAMBDA car : car.price <= preferences.max_price.val) ELSE a
        normalized_makes == [i \in 1..Len(preferences.preferred_makes) |->
                                StrLower(preferences.preferred_makes[i])]
        c == IF preferences.preferred_makes # <<>>
             THEN SelectSeq(b, LAMBDA car : \E i \in 1..Len(normalized_makes) :
                                          StrLower(car.make) = normalized_makes[i])
             ELSE b
        d == IF ~preferences.max_km.none
             THEN SelectSeq(c, LAMBDA car : car.km <= preferences.max_km.val) ELSE c
        e == IF ~preferences.min_year.none
             THEN SelectSeq(d, LAMBDA car : car.year >= preferences.min_year.val) ELSE d
        f == IF ~preferences.max_year.none
             THEN SelectSeq(e, LAMBDA car : car.year <= preferences.max_year.val) ELSE e
    IN  SortByRelevance(FilterFeatures(f, preferences.features_required))

\* the float literals 0.1, 0.2 and 0.3 of the score
Tenths(k) == Quotient(0, ToBig(k), 0, ToBig(10), 0)
FeatureBonus == Tenths(1)
SoftWeight == Tenths(2)
PriceWeight == Tenths(3)

\* max(0, x)
MaxZero(x) == IF Less(Zero(0), x) THEN x ELSE Zero(0)

\* decimal.getcontext().prec, and the number of digits of n, 0 < n < 2^31
Precision == 28
DecimalDigits(n) == CHOOSE k \in 1..10 : n \div 10^(k - 1) \in 1..9

\* the quotient q and the remainder r of a division by b, q rounded to the
\* nearest integer, a tie to the even one
HalfEven(d, b) ==
    LET twice == BigCmp(BigMulSmall(d.r, 2), b)
    IN  IF twice > 0 \/ (twice = 0 /\ Limb(d.q, 1) % 2 = 1) THEN BigAdd(d.q, <<1>>) ELSE d.q

\* float(Decimal(a) / Decimal(b)) for b > 0: the quotient has Precision
\* digits, j of them after the point, and float() gives the float nearest to it
DecimalQuotientTo(a, b, ten) ==
    Quotient(0, HalfEven(BigDivMod(BigMul(a, ten), b), b), 0, ten, 0)
DecimalQuotient(a, b) ==
    LET j == Precision - 1 - DecimalDigits(a) + DecimalDigits(b)
    IN  IF a = 0 THEN Zero(0)
        ELSE IF BigCmp(BigMul(ToBig(a), PowerOfTen(j)),
                       BigMul(ToBig(b), PowerOfTen(Precision - 1))) >= 0
        THEN DecimalQuotientTo(ToBig(a), ToBig(b), PowerOfTen(j))
        ELSE DecimalQuotientTo(ToBig(a), ToBig(b), PowerOfTen(j + 1))

\* RecommendationService._calculate_recommendation_score: price_score * 0.3,
\* or 0.0 when the price adds nothing.  ideal_price is the Decimal
\* min_price + price_range * Decimal('0.6'), so that price_diff / price_range
\* is the quotient of |10 * price - 10 * min_price - 6 * price_range| by
\* 10 * price_range
PriceScore(car, preferences) ==
    IF (~preferences.min_price.none /\ preferences.min_price.val # 0)
       /\ (~preferences.max_price.none /\ preferences.max_price.val # 0)
    THEN LET price_range == preferences.max_price.val - preferences.min_price.val
             price_diff == Abs(10 * car.price
                               - (10 * preferences.min_price.val + 6 * price_range))
         IN  IF price_range > 0
             THEN Mul(MaxZero(Sub(One, DecimalQuotient(price_diff, 10 * price_range))),
                      PriceWeight)
             ELSE Zero(0)
    ELSE Zero(0)

\* Car.age_in_years and Car.is_recent_model, each reading datetime.now().year
AgeInYears(car, current_year) == current_year - car.year
IsRecentModel(car, current_year) == AgeInYears(car, current_year) <= 3

\* the years the clock gave to the two reads of one score: age_in_years for
\* the age term, then is_recent_model for the bonus
YearsRead(age_in_years, is_recent_model) ==
    [age_in_years |-> age_in_years, is_recent_model |-> is_recent_model]
At(year) == YearsRead(year, year)

\* age_score * 0.2 and km_score * 0.2
AgeScore(car, current_year) ==
    Mul(MaxZero(Sub(One, Div(FloatOfInt(AgeInYears(car, current_year)), FloatOfInt(15)))),
        SoftWeight)
KmScoreRewardsMileage(car) ==
    Mul(MaxZero(Div(FloatOfInt(car.km), FloatOfInt(200000))), SoftWeight)
KmScore(car) ==
    Mul(MaxZero(Sub(One, Div(FloatOfInt(car.km), FloatOfInt(200000)))), SoftWeight)

\* score += 0.1 when the flag holds
Bonus(score, flag) == IF flag THEN Add(score, FeatureBonus) ELSE score

\* the sum of the terms, in the order of the source
ScoreSum(price, age, km, bluetooth, car_play, recent) ==
    Bonus(Bonus(Bonus(Add(Add(Add(Zero(0), price), age), km), bluetooth), car_play), recent)

\* the score worked out term by term
ScoreWorkedOut(car, preferences, years) ==
    ScoreSum(PriceScore(car, preferences), AgeScore(car, years.age_in_years), KmScore(car),
             car.bluetooth = "True", car.car_play = "True",
             IsRecentModel(car, years.is_recent_model))

\* what a score is worked out from: the fields of the car, the preferences
\* and the clock that the terms read
ScoreInput(car, preferences, years) ==
    [car |-> [price |-> car.price, year |-> car.year, km |-> car.km,
              bluetooth |-> car.bluetooth, car_play |-> car.car_play],
     preferences |-> [min_price |-> preferences.min_price,
                      max_price |-> preferences.max_price],
     years |-> years]

\* the years of the clock, and what two reads in a row can give
ClockYears == {2025, 2026}
ClockReads ==
    {At(year) : year \in ClockYears}
        \cup {YearsRead(year, year + 1) : year \in {y \in ClockYears : y + 1 \in ClockYears}}
KmValues == {0, 30000, 80000, 200000, 250000}

\* the scores of the records of the catalogs, at their own mileage and at
\* the mileages above, worked out once
ScoresOf(inputs) ==
    [x \in inputs |-> ScoreWorkedOut(x.car, x.preferences, x.years)]
KnownScores ==
    ScoresOf({ScoreInput([car EXCEPT !.km = km], preferences, years) :
                  car \in CarPool, km \in KmValues \cup {c.km : c \in CarPool},
                  preferences \in PreferenceSets, years \in ClockReads}
             \cup {ScoreInput(car, NoPreferences, At(2026)) : car \in SearchPool}
             \cup {ScoreInput(LongCatalog[1], NoPreferences, At(2026)),
                   ScoreInput(JettaCatalog[1], NoPreferences, At(2026))})

ScoreIn(table, x) ==
    IF x \in DOMAIN table THEN table[x]
    ELSE ScoreWorkedOut(x.car, x.preferences, x.years)

\* RecommendationService._calculate_recommendation_score, the clock giving
\* years to its two reads
CalculateRecommendationScore(car, preferences, years) ==
    ScoreIn(KnownScores, ScoreInput(car, preferences, years))

RECURSIVE SortByFloatScoreDescending(_)
\* scored_cars.sort(key=score, reverse=True), the scores floats: stable,
\* descending
SortByFloatScoreDescending(scored) ==
    IF scored = <<>> THEN <<>>
    ELSE LET sorted == SortByFloatScoreDescending(SubSeq(scored, 1, Len(scored) - 1))
             last == scored[Len(scored)]
             k == Cardinality({i \in 1..Len(sorted) : LessEq(last.score, sorted[i].score)})
         IN  SubSeq(sorted, 1, k) \o <<last>> \o SubSeq(sorted, k + 1, Len(sorted))

RECURSIVE SortByScoreDescending(_)
\* list.sort(key=score, reverse=True), the scores exact: stable, descending
SortByScoreDescending(scored) ==
    IF scored = <<>> THEN <<>>
    ELSE LET sorted == SortByScoreDescending(SubSeq(scored, 1, Len(scored) - 1))
             last == scored[Len(scored)]
             k == Cardinality({i \in 1..Len(sorted) : sorted[i].score >= last.score})
         IN  SubSeq(sorted, 1, k) \o <<last>> \o SubSeq(sorted, k + 1, Len(sorted))

\* RecommendationService._generate_recommendation_reason: the count the
\* text starts with and the criteria it names
GenerateRecommendationReason(preferences, total_matches) ==
    [found |-> total_matches,
     reasons |-> (IF ~preferences.max_price.none /\ preferences.max_price.val # 0
                  THEN <<"budget">> ELSE <<>>)
              \o (IF preferences.preferred_makes # <<>> THEN <<"brands">> ELSE <<>>)
              \o (IF ~preferences.max_km.none /\ preferences.max_km.val # 0
                  THEN <<"km">> ELSE <<>>)
              \o (IF ~preferences.min_year.none /\ preferences.min_year.val # 0
                  THEN <<"year">> ELSE <<>>)]

\* q[:limit]: the first limit elements, all but the last -limit ones when
\* limit is negative
Take(q, limit) ==
    IF limit >= 0 THEN SubSeq(q, 1, Min(limit, Len(q)))
    ELSE SubSeq(q, 1, Len(q) + limit)

\* the clock during one call: the year at its start, and the number of reads
\* after which the year changes (0 when it does not change during the call)
Now(year, turn) == [year |-> year, turn |-> turn]
Steady(year) == Now(year, 0)
YearAt(now, read) ==
    IF now.turn = 0 \/ read <= now.turn THEN now.year ELSE now.year + 1

\* the cars scored one after the other, each score reading the clock twice
ScoredCars(matching_cars, preferences, now) ==
    [i \in 1..Len(matching_cars) |->
        LET years == YearsRead(YearAt(now, 2 * i - 1), YearAt(now, 2 * i))
        IN  [car |-> matching_cars[i],
             score |-> CalculateRecommendationScore(matching_cars[i], preferences, years),
             years |-> years]]

\* RecommendationService.recommend_cars; the result is given with the list
\* search_cars returned and the list of scored cars after the sort
RecommendCarsIgnoresLimit(cars, preferences, limit, now) ==
    LET matching_cars == RepositorySearchCars(cars, preferences)
        scored_cars == SortByFloatScoreDescending(ScoredCars(matching_cars, preferences, now))
    IN  [cars |-> [i \in 1..Len(scored_cars) |-> scored_cars[i].car],
         total_matches |-> Len(matching_cars),
         recommendation_reason |->
             GenerateRecommendationReason(preferences, Len(matching_cars)),
         matching_cars |-> matching_cars,
         scored_cars |-> scored_cars]
RecommendCars(cars, preferences, limit, now) ==
    LET matching_cars == RepositorySearchCars(cars, preferences)
        scored_cars == SortByFloatScoreDescending(ScoredCars(matching_cars, preferences, now))
        top == Take(scored_cars, limit)
    IN  [cars |-> [i \in 1..Len(top) |-> top[i].car],
         total_matches |-> Len(matching_cars),
         recommendation_reason |->
             GenerateRecommendationReason(preferences, Len(matching_cars)),
         matching_cars |-> matching_cars,
         scored_cars |-> scored_cars]

\* the limits asked for: [:limit] takes a negative one too
Limits == -1..MaxLimit

InitRecommend ==
    /\ ChatIdle /\ FinanceIdle /\ AgentIdle /\ WebhookIdle /\ SearchIdle /\ StoreIdle
    /\ carsCache \in SeqsOver(CarPool, MaxCars)
    /\ recIn \in [arguments : PreferenceArguments, limit : Limits]
    /\ recOut = <<>>
    /\ prefs = NotBuilt
    /\ clock = 2025

\* the tool get_car_recommendations builds the preferences of its request;
\* when the constructor raises, the tool answers with the error and
\* recommend_cars is not called
build_preferences ==
    /\ prefs = NotBuilt
    /\ prefs' = CustomerPreferences(ToolPreferences(Kwargs(recIn.arguments)))
    /\ UNCHANGED <<carsCache, recIn, recOut, clock, finVars, chatVars, agentVars, hookVars,
                   libVars>>

\* a caller of the service other than the tool builds the preferences with
\* the constructor, from the arguments as they are
caller_builds_preferences ==
    /\ prefs = NotBuilt
    /\ prefs' = CustomerPreferences(recIn.arguments)
    /\ UNCHANGED <<carsCache, recIn, recOut, clock, finVars, chatVars, agentVars, hookVars,
                   libVars>>

\* that caller assigns max_price of the object it built (the tool assigns
\* nothing): CustomerPreferences is not frozen and does not validate an
\* assignment
caller_sets_max_price ==
    \E max_price \in AssignedPrices :
        /\ prefs.raised = ""
        /\ prefs = CustomerPreferences(recIn.arguments)
        /\ recOut = <<>>
        /\ prefs.preferences.max_price.none
        /\ prefs' = [prefs EXCEPT !.preferences.max_price = Some(max_price)]
        /\ UNCHANGED <<carsCache, recIn, recOut, clock, finVars, chatVars, agentVars,
                       hookVars, libVars>>

\* midnight of December 31
new_year ==
    /\ prefs.raised = ""
    /\ clock + 1 \in ClockYears
    /\ clock' = clock + 1
    /\ UNCHANGED <<carsCache, recIn, recOut, prefs, finVars, chatVars, agentVars, hookVars,
                   libVars>>

\* the numbers of clock reads of a call after which the year can change, 0
\* for no change; a change before the first read or after the last one is a
\* change between two calls
Turns(reads, year) ==
    {0} \cup (IF year + 1 \in ClockYears THEN 1..(reads - 1) ELSE {})

\* recommend_cars is called with the same preferences and limit, at most
\* twice; each call is logged with the catalog it read.  get_all_cars hands
\* out a copy of _cars_cache and search_cars filters and sorts copies, so the
\* cache is as before
recommend_cars ==
    /\ prefs.raised = ""
    /\ Len(recOut) < 2
    /\ \E turn \in Turns(2 * Len(RepositorySearchCars(carsCache, prefs.preferences)), clock) :
           /\ recOut' = Append(recOut,
                  [result |-> RecommendCars(carsCache, prefs.preferences, recIn.limit,
                                            Now(clock, turn)),
                   read |-> carsCache])
           /\ clock' = IF turn = 0 THEN clock ELSE clock + 1
    /\ UNCHANGED <<carsCache, recIn, prefs, finVars, chatVars, agentVars, hookVars, libVars>>

NextRecommend ==
    \/ build_preferences
    \/ caller_builds_preferences
    \/ caller_sets_max_price
    \/ new_year
    \/ recommend_cars

SpecRecommend == InitRecommend /\ [][NextRecommend]_vars

----------------------------------------------------------------------------
(* Claims about the recommendations (SpecRecommend).                       *)

\* a required feature names Bluetooth, or CarPlay
NamesBluetooth(feature) ==
    Contains(StrLower(feature), <<"b", "l", "u", "e", "t", "o", "o", "t", "h">>)
NamesCarPlay(feature) ==
    \/ Contains(StrLower(feature), <<"c", "a", "r", "p", "l", "a", "y">>)
    \/ Contains(StrLower(feature), <<"c", "a", "r", " ", "p", "l", "a", "y">>)
RequiresBluetooth(p) ==
    \E i \in 1..Len(p.features_required) : NamesBluetooth(p.features_required[i])
RequiresCarPlay(p) ==
    \E i \in 1..Len(p.features_required) : NamesCarPlay(p.features_required[i])

\* the record passes every hard filter the preferences make active
Passes(car, p) ==
    /\ p.min_price.none \/ car.price >= p.min_price.val
    /\ p.max_price.none \/ car.price <= p.max_price.val
    /\ p.preferred_makes = <<>>
       \/ \E i \in 1..Len(p.preferred_makes) :
              StrLower(car.make) = StrLower(p.preferred_makes[i])
    /\ p.max_km.none \/ car.km <= p.max_km.val
    /\ p.min_year.none \/ car.year >= p.min_year.val
    /\ p.max_year.none \/ car.year <= p.max_year.val
    /\ RequiresBluetooth(p) => car.bluetooth = "True"
    /\ RequiresCarPlay(p) => car.car_play = "True"

Ids(cars) == {cars[i].stock_id : i \in 1..Len(cars)}
PassingIds(k) ==
    {recOut[k].read[i].stock_id :
        i \in {j \in 1..Len(recOut[k].read) : Passes(recOut[k].read[j], prefs.preferences)}}

\* C15 (as claimed): the records recommend_cars scores are exactly the
\* records of the catalog that pass every active hard filter (price bounds,
\* makes, mileage, years, required Bluetooth / CarPlay); a record failing one
\* is not returned whatever its score, and total_matches counts the passing
\* ones.
C15_SurvivorsPassEveryFilter ==
    \A k \in 1..Len(recOut) :
        LET r == recOut[k].result
        IN  /\ {r.scored_cars[i].car.stock_id : i \in 1..Len(r.scored_cars)} = PassingIds(k)
            /\ Len(r.scored_cars) = Cardinality(PassingIds(k))
            /\ r.total_matches = Cardinality(PassingIds(k))
            /\ \A i \in 1..Len(r.cars) : Passes(r.cars[i], prefs.preferences)

\* the score a call gave to a record it scored
ScoreGiven(r, car) ==
    LET i == CHOOSE j \in 1..Len(r.scored_cars) : r.scored_cars[j].car.stock_id = car.stock_id
    IN  r.scored_cars[i].score

\* C16: for a limit >= 0 and the M survivors of the filters, recommend_cars
\* returns min(limit, M) of them, in non-increasing score order, no omitted
\* survivor scoring higher than a returned one; total_matches and the count
\* of the rationale are M whatever the limit.
C16_TopByScoreAndFullCount ==
    \A k \in 1..Len(recOut) :
        LET r == recOut[k].result
            survivors == r.matching_cars
            M == Len(survivors)
        IN  /\ recIn.limit >= 0 =>
                  Len(r.cars) = (IF recIn.limit < M THEN recIn.limit ELSE M)
            /\ Cardinality(Ids(r.cars)) = Len(r.cars)
            /\ Ids(r.cars) \subseteq Ids(survivors)
            /\ \A i, j \in 1..Len(r.cars) :
                  i < j => LessEq(ScoreGiven(r, r.cars[j]), ScoreGiven(r, r.cars[i]))
            /\ \A i \in 1..M :
                  survivors[i].stock_id \notin Ids(r.cars) =>
                      \A j \in 1..Len(r.cars) :
                          LessEq(ScoreGiven(r, survivors[i]), ScoreGiven(r, r.cars[j]))
            /\ r.total_matches = M
            /\ r.recommendation_reason.found = M
C16_Witness ==
    /\ Len(recOut) >= 1
    /\ recIn.limit = 1
    /\ Len(recOut[1].result.cars) = 1
    /\ recOut[1].result.total_matches = 3
    /\ recOut[1].result.recommendation_reason.found = 3
    /\ Less(recOut[1].result.scored_cars[2].score, recOut[1].result.scored_cars[1].score)

\* C17 (as claimed): a second call of recommend_cars with the same
\* preferences and limit on the unchanged catalog returns the same cars in
\* the same order and the same total_matches, and reads the catalog the first
\* call read.
C17_SecondCallSameResult ==
    Len(recOut) = 2 =>
        /\ recOut[2].result.cars = recOut[1].result.cars
        /\ recOut[2].result.total_matches = recOut[1].result.total_matches
        /\ recOut[2].read = recOut[1].read
        /\ carsCache = recOut[1].read

\* km2 is the mileage that follows km1 among KmValues (the order of the
\* scores is transitive, so the neighbours stand for every pair)
NextMileage(km1, km2) ==
    km1 < km2 /\ \A km \in KmValues : ~(km1 < km /\ km < km2)

\* the score of the input x with its mileage replaced does not rise from one
\* mileage to the next
OrderedByMileage(x) ==
    \A km1, km2 \in KmValues :
        NextMileage(km1, km2) =>
            LessEq(ScoreIn(KnownScores, [x EXCEPT !.car.km = km2]),
                   ScoreIn(KnownScores, [x EXCEPT !.car.km = km1]))

\* the inputs of the table for which that holds, worked out once
KnownOrdered == {x \in DOMAIN KnownScores : OrderedByMileage(x)}

\* C18: of two records that differ only in mileage, the one with the lower
\* mileage has a soft score greater than or equal to the other's, whatever
\* the preferences and whatever the clock gives to the reads of a score.
C18_LowerMileageNeverScoresLower ==
    Len(recOut) >= 1 =>
        /\ \A i \in 1..Len(recOut[1].read) : \A years \in ClockReads :
              ScoreInput(recOut[1].read[i], prefs.preferences, years) \in KnownOrdered
        /\ LET scored == recOut[1].result.scored_cars
           IN  \A i, j \in 1..Len(scored) :
                  ([scored[i].car EXCEPT !.km = 0, !.stock_id = ""]
                      = [scored[j].car EXCEPT !.km = 0, !.stock_id = ""]
                   /\ scored[i].years = scored[j].years
                   /\ scored[i].car.km <= scored[j].car.km)
                  => LessEq(scored[j].score, scored[i].score)
C18_Witness ==
    /\ Len(recOut) >= 1
    /\ ~prefs.preferences.min_price.none /\ ~prefs.preferences.max_price.none
    /\ LET scored == recOut[1].result.scored_cars
       IN  \E i, j \in 1..Len(scored) :
              /\ scored[i].car.stock_id = "1" /\ scored[j].car.stock_id = "2"
              /\ scored[i].car.km < scored[j].car.km
              /\ scored[i].years = scored[j].years
              /\ Less(scored[j].score, scored[i].score)

----------------------------------------------------------------------------
(* The WhatsApp webhooks and their conversation stores                     *)

MaxRequests == 3
MaxTasks == 2

\* domain.chat: ChatTurn, Conversation.add_turn and Conversation.get_history_text
\* (the text is kept as the turns it is written from)
ChatTurn(user, assistant) == [user |-> user, assistant |-> assistant]
add_turnAtFront(turns, user_msg, assistant_msg) ==
    <<ChatTurn(user_msg, assistant_msg)>> \o turns
add_turn(turns, user_msg, assistant_msg) == Append(turns, ChatTurn(user_msg, assistant_msg))
get_history_text(turns, last_n) ==
    IF last_n = 0 THEN turns
    ELSE SubSeq(turns, Max(1, Len(turns) - last_n + 1), Len(turns))

\* ChatService.process_message as the webhook sees it: the answer to the
\* query and to the history text of the conversation handed in
NoAnswer == [query |-> <<>>, conversation_history |-> <<>>]
ProcessMessage(user_input, turns) ==
    [query |-> user_input,
     conversation_history |-> IF turns # <<>> THEN get_history_text(turns, 3) ELSE <<>>]

\* _conversations.get(user_id, Conversation()): the stored object, or a new
\* one (the default built for a stored user is dropped at once)
GetConversationSharedDefault(store, objects, user_id) ==
    IF store[user_id] # 0 THEN store[user_id] ELSE 1
GetConversation(store, objects, user_id) ==
    IF store[user_id] # 0 THEN store[user_id] ELSE Len(objects) + 1

NewRequest(From, Body) ==
    [From |-> From, Body |-> Body, pc |-> "pending", user_id |-> <<>>,
     user_msg |-> <<>>, conv |-> 0, answer |-> NoAnswer]

\* a message reaches POST /api/whatsapp/webhook and waits for the event loop
request_arrives ==
    \E f \in Froms, b \in Bodies :
        /\ tasks = <<>>
        /\ Len(requests) < MaxRequests
        /\ requests' = Append(requests, NewRequest(f, b))
        /\ UNCHANGED <<conversations, heap, running, conversation_storage, tasks>>
        /\ UNCHANGED <<finVars, chatVars, agentVars, recVars, libVars>>

\* the handler is a coroutine without an await: once the event loop has
\* started it, lines 21-27 run to the end before another request starts
whatsapp_webhook_get ==
    \E r \in 1..Len(requests) :
        /\ running = 0
        /\ requests[r].pc = "pending"
        /\ LET user_id == requests[r].From
               conv == GetConversation(conversations, heap, user_id)
           IN  /\ heap' = IF conv > Len(heap) THEN Append(heap, <<>>) ELSE heap
               /\ requests' = [requests EXCEPT ![r] =
                      [requests[r] EXCEPT !.pc = "process", !.user_id = user_id,
                                          !.user_msg = Strip(requests[r].Body),
                                          !.conv = conv]]
        /\ running' = r
        /\ UNCHANGED <<conversations, conversation_storage, tasks>>
        /\ UNCHANGED <<finVars, chatVars, agentVars, recVars, libVars>>

whatsapp_webhook_process ==
    /\ running # 0
    /\ requests[running].pc = "process"
    /\ requests' = [requests EXCEPT ![running] =
           [requests[running] EXCEPT !.pc = "add_turn",
               !.answer = ProcessMessage(requests[running].user_msg,
                                         heap[requests[running].conv])]]
    /\ UNCHANGED <<conversations, heap, running, conversation_storage, tasks>>
    /\ UNCHANGED <<finVars, chatVars, agentVars, recVars, libVars>>

whatsapp_webhook_add_turn ==
    /\ running # 0
    /\ requests[running].pc = "add_turn"
    /\ heap' = [heap EXCEPT ![requests[running].conv] =
           add_turn(@, requests[running].user_msg, requests[running].answer)]
    /\ requests' = [requests EXCEPT ![running] = [requests[running] EXCEPT !.pc = "store"]]
    /\ UNCHANGED <<conversations, running, conversation_storage, tasks>>
    /\ UNCHANGED <<finVars, chatVars, agentVars, recVars, libVars>>

whatsapp_webhook_store ==
    /\ running # 0
    /\ requests[running].pc = "store"
    /\ conversations' = [conversations EXCEPT ![requests[running].user_id] =
                             requests[running].conv]
    /\ requests' = [requests EXCEPT ![running] = [requests[running] EXCEPT !.pc = "done"]]
    /\ running' = 0
    /\ UNCHANGED <<heap, conversation_storage, tasks>>
    /\ UNCHANGED <<finVars, chatVars, agentVars, recVars, libVars>>

\* KavakCommercialAgent.process_message as the background task sees it: the
\* state handed in, or a new one for a user who has none, comes back
AgentResult(user_id, message, conversation_state, instant, success) ==
    [response |-> IF success THEN Generated("agent")
                  ELSE ExceptionText("Error interno del agente: "),
     conversation_state |->
         IF conversation_state = NoState
         THEN ConversationState(user_id, "greeting", instant)
         ELSE conversation_state,
     success |-> success]

NoAgentResult == [response |-> NoText, conversation_state |-> NoState, success |-> FALSE]

\* main.whatsapp_webhook: POST /webhook/whatsapp queues process_whatsapp_message
main_whatsapp_webhook ==
    \E f \in TaskFroms, b \in Bodies :
        /\ requests = <<>>
        /\ Len(tasks) < MaxTasks
        /\ tasks' = Append(tasks,
               [endpoint |-> "/webhook/whatsapp", user_id |-> UserId(f), message |-> b,
                phone_number |-> f, pc |-> "queued", conversation_state |-> NoState,
                result |-> NoAgentResult])
        /\ UNCHANGED <<conversations, heap, requests, running, conversation_storage>>
        /\ UNCHANGED <<finVars, chatVars, agentVars, recVars, libVars>>

\* main.chat: POST /chat is a plain function too, run on a worker thread; it
\* reads and writes the same conversation_storage
chat ==
    \E u \in UserIds, b \in Bodies :
        /\ requests = <<>>
        /\ Len(tasks) < MaxTasks
        /\ tasks' = Append(tasks,
               [endpoint |-> "/chat", user_id |-> u, message |-> b,
                phone_number |-> <<>>, pc |-> "queued", conversation_state |-> NoState,
                result |-> NoAgentResult])
        /\ UNCHANGED <<conversations, heap, requests, running, conversation_storage>>
        /\ UNCHANGED <<finVars, chatVars, agentVars, recVars, libVars>>

\* conversation_state = conversation_storage.get(request.user_id)
chat_get ==
    \E t \in 1..Len(tasks) :
        /\ tasks[t].endpoint = "/chat"
        /\ tasks[t].pc = "queued"
        /\ tasks' = [tasks EXCEPT ![t] =
               [tasks[t] EXCEPT !.pc = "process",
                   !.conversation_state = conversation_storage[tasks[t].user_id]]]
        /\ UNCHANGED <<conversations, heap, requests, running, conversation_storage>>
        /\ UNCHANGED <<finVars, chatVars, agentVars, recVars, libVars>>

\* result = agent.process_message(...)
chat_process ==
    \E t \in 1..Len(tasks), success \in BOOLEAN :
        /\ tasks[t].endpoint = "/chat"
        /\ tasks[t].pc = "process"
        /\ tasks' = [tasks EXCEPT ![t] =
               [tasks[t] EXCEPT !.pc = "store",
                   !.result = AgentResult(tasks[t].user_id, tasks[t].message,
                                          tasks[t].conversation_state, t, success)]]
        /\ UNCHANGED <<conversations, heap, requests, running, conversation_storage>>
        /\ UNCHANGED <<finVars, chatVars, agentVars, recVars, libVars>>

\* conversation_storage[request.user_id] = result["conversation_state"], then
\* the ChatResponse, written from the result
chat_store ==
    \E t \in 1..Len(tasks) :
        /\ tasks[t].endpoint = "/chat"
        /\ tasks[t].pc = "store"
        /\ conversation_storage' = [conversation_storage EXCEPT ![tasks[t].user_id] =
                                        tasks[t].result.conversation_state]
        /\ tasks' = [tasks EXCEPT ![t] = [tasks[t] EXCEPT !.pc = "done"]]
        /\ UNCHANGED <<conversations, heap, requests, running>>
        /\ UNCHANGED <<finVars, chatVars, agentVars, recVars, libVars>>

\* process_whatsapp_message is a plain function, so the background tasks run
\* on the worker threads and their steps interleave
process_whatsapp_message_get ==
    \E t \in 1..Len(tasks) :
        /\ tasks[t].endpoint = "/webhook/whatsapp"
        /\ tasks[t].pc = "queued"
        /\ tasks' = [tasks EXCEPT ![t] =
               [tasks[t] EXCEPT !.pc = "process",
                   !.conversation_state = conversation_storage[tasks[t].user_id]]]
        /\ UNCHANGED <<conversations, heap, requests, running, conversation_storage>>
        /\ UNCHANGED <<finVars, chatVars, agentVars, recVars, libVars>>

process_whatsapp_message_process ==
    \E t \in 1..Len(tasks), success \in BOOLEAN :
        /\ tasks[t].endpoint = "/webhook/whatsapp"
        /\ tasks[t].pc = "process"
        /\ tasks' = [tasks EXCEPT ![t] =
               [tasks[t] EXCEPT !.pc = "store",
                   !.result = AgentResult(tasks[t].user_id, tasks[t].message,
                                          tasks[t].conversation_state, t, success)]]
        /\ UNCHANGED <<conversations, heap, requests, running, conversation_storage>>
        /\ UNCHANGED <<finVars, chatVars, agentVars, recVars, libVars>>

\* the store, then send_whatsapp_response, which touches no store
process_whatsapp_message_store ==
    \E t \in 1..Len(tasks) :
        /\ tasks[t].endpoint = "/webhook/whatsapp"
        /\ tasks[t].pc = "store"
        /\ conversation_storage' = [conversation_storage EXCEPT ![tasks[t].user_id] =
                                        tasks[t].result.conversation_state]
        /\ tasks' = [tasks EXCEPT ![t] = [tasks[t] EXCEPT !.pc = "done"]]
        /\ UNCHANGED <<conversations, heap, requests, running>>
        /\ UNCHANGED <<finVars, chatVars, agentVars, recVars, libVars>>

InitWebhook ==
    ChatIdle /\ FinanceIdle /\ AgentIdle /\ RecommendIdle /\ WebhookIdle /\ SearchIdle /\ StoreIdle

\* the two applications are separate processes: a behaviour follows one
NextWebhook ==
    \/ request_arrives
    \/ whatsapp_webhook_get
    \/ whatsapp_webhook_process
    \/ whatsapp_webhook_add_turn
    \/ whatsapp_webhook_store
    \/ main_whatsapp_webhook
    \/ process_whatsapp_message_get
    \/ process_whatsapp_message_process
    \/ process_whatsapp_message_store
    \/ chat
    \/ chat_get
    \/ chat_process
    \/ chat_store

SpecWebhook == InitWebhook /\ [][NextWebhook]_vars

\* the turns stored for a sender by the router, none for an unknown sender
StoredTurns(From) == IF conversations[From] = 0 THEN <<>> ELSE heap[conversations[From]]

\* the turns a stored ConversationState holds: the model has no turn list
StateTurns(conversation_state) == <<>>

RequestsOf(From) == {r \in 1..Len(requests) : requests[r].From = From}
TasksOf(user_id) == {t \in 1..Len(tasks) : tasks[t].user_id = user_id}

\* the router's webhook: once every request is served, each sender's stored
\* conversation holds one turn per request, pairing its message and answer
RouterKeepsEveryTurn ==
    (\A r \in 1..Len(requests) : requests[r].pc = "done") =>
        \A f \in Froms :
            /\ Len(StoredTurns(f)) = Cardinality(RequestsOf(f))
            /\ \A r \in RequestsOf(f) :
                   \E i \in 1..Len(StoredTurns(f)) :
                       StoredTurns(f)[i] = ChatTurn(requests[r].user_msg, requests[r].answer)
            /\ \A i \in 1..Len(StoredTurns(f)) :
                   StoredTurns(f)[i].assistant.query = StoredTurns(f)[i].user

\* main's webhook: once every task is done, each user's stored state holds
\* one turn per task
TasksKeepEveryTurn ==
    (\A t \in 1..Len(tasks) : tasks[t].pc = "done") =>
        \A u \in UserIds :
            Len(StateTurns(conversation_storage[u])) = Cardinality(TasksOf(u))

\* main's webhook: the tasks of one user work on one state, none stores a
\* state of its own over the state another task stored
TasksShareOneState ==
    \A t1, t2 \in 1..Len(tasks) :
        (tasks[t1].pc = "done" /\ tasks[t2].pc = "done"
            /\ tasks[t1].user_id = tasks[t2].user_id) =>
            tasks[t1].result.conversation_state = tasks[t2].result.conversation_state

\* C19 (as claimed): when k requests of one user are processed concurrently
\* by the WhatsApp webhook, the user's stored conversation afterwards holds
\* exactly k new turns, each pairing a request's message with its own answer;
\* no turn is lost or overwritten, also for the first requests of a new user.
C19_ConcurrentRequestsKeepEveryTurn ==
    RouterKeepsEveryTurn /\ TasksKeepEveryTurn /\ TasksShareOneState

\* one step of the router as the senders see it
OwnAppendAfterAnswer ==
    /\ \A f \in Froms :
           StoredTurns(f)' # StoredTurns(f) =>
               /\ running # 0
               /\ requests[running].user_id = f
               /\ requests[running].pc \in {"add_turn", "store"}
               /\ StoredTurns(f)' = Append(StoredTurns(f),
                      ChatTurn(requests[running].user_msg, requests[running].answer))
    /\ conversations' # conversations =>
           /\ running # 0
           /\ requests[running].pc = "store"
           /\ heap[requests[running].conv] # <<>>
           /\ heap[requests[running].conv][Len(heap[requests[running].conv])]
                  = ChatTurn(requests[running].user_msg, requests[running].answer)
           /\ \A f \in Froms \ {requests[running].user_id} :
                  conversations'[f] = conversations[f]

\* C20: the only change a request of the router's webhook makes to the
\* stored conversations is one turn appended to its own sender's conversation,
\* after the answer was produced; the store is not written before that
\* append, and the conversations of the other senders stay as they were.
C20_OnlyOwnTurnAppended == [][OwnAppendAfterAnswer]_vars

\* two senders have stored conversations and one has been appended to twice
C20_Witness ==
    /\ running = 0
    /\ \E f1, f2 \in Froms :
           f1 # f2 /\ Len(StoredTurns(f1)) >= 2 /\ Len(StoredTurns(f2)) >= 1

\* the windows get_history_text is asked for
HistoryWindows == 1..4

\* one step leaves every Conversation as it was or adds one turn at its end,
\* and the step that builds the handler's context adds none
AppendOnly ==
    /\ Len(heap') >= Len(heap)
    /\ \A o \in 1..Len(heap) :
           \/ heap'[o] = heap[o]
           \/ /\ running # 0 /\ requests[running].pc = "add_turn"
              /\ Len(heap'[o]) = Len(heap[o]) + 1
              /\ SubSeq(heap'[o], 1, Len(heap[o])) = heap[o]
    /\ (running # 0 /\ requests[running].pc = "process") => heap' = heap

\* get_history_text(last_n = N) is written from the last min(N, L) turns, in
\* their order
HistoryIsLastTurns ==
    \A o \in 1..Len(heap), N \in HistoryWindows :
        LET L == Len(heap[o])
            recent == get_history_text(heap[o], N)
        IN  /\ Len(recent) = Min(N, L)
            /\ \A i \in 1..Len(recent) : recent[i] = heap[o][L - Len(recent) + i]

\* the context process_message built for a served request is the window of 3
ContextIsWindowOfThree ==
    \A r \in 1..Len(requests) :
        requests[r].pc = "add_turn" =>
            LET turns == heap[requests[r].conv]
            IN  /\ Len(requests[r].answer.conversation_history) = Min(3, Len(turns))
                /\ \A i \in 1..Len(requests[r].answer.conversation_history) :
                       requests[r].answer.conversation_history[i]
                           = turns[Len(turns) - Min(3, Len(turns)) + i]

\* C21: Conversation is append-only: add_turn adds one turn at the end and
\* changes no earlier turn; get_history_text(last_n = N), N >= 1, on L turns
\* uses exactly the last min(N, L) turns in their order and leaves the stored
\* list as it was (process_message uses N = 3).
C21_ConversationAppendOnly ==
    [][AppendOnly]_vars /\ [](HistoryIsLastTurns /\ ContextIsWindowOfThree)

\* a conversation of three turns: windows 1 and 2 cut it, 3 and 4 do not
C21_Witness ==
    \E o \in 1..Len(heap) :
        /\ Len(heap[o]) = 3
        /\ Len(get_history_text(heap[o], 2)) = 2
        /\ heap[o][3].assistant.conversation_history = SubSeq(heap[o], 1, 2)

----------------------------------------------------------------------------
(* The order of the stages of one request                                  *)

\* the stages in the order the graph's edges give them
StageOrder == <<"START", "CLASSIFIED", "DISPATCHED", "HANDLED", "FORMATTED", "DONE">>
StageRank(stage) == CHOOSE i \in 1..Len(StageOrder) : StageOrder[i] = stage

\* the handler a response comes from: each handler answers with its own
\* generated text or with its own fixed texts
HandlerOf(response) ==
    IF response \in {Generated("general_agent"), GeneralFallback} THEN "general_agent"
    ELSE IF response \in {Generated("catalog_agent"), CatalogFallback} THEN "catalog_agent"
    ELSE IF response = Generated("finance_agent") \/ response.src = "finance_responses"
    THEN "finance_agent"
    ELSE "none"

\* the handler the table gives
ExpectedHandler(intent) ==
    IF intent = "CATALOG_SEARCH" THEN "catalog_agent"
    ELSE IF intent = "FINANCE_CALCULATION" THEN "finance_agent"
    ELSE "general_agent"

\* one step of a request: the next stage, or the end when graph.invoke raises
StagesInOrder ==
    /\ (pc \in InFlight /\ pc' # pc) =>
           \/ StageRank(pc') = StageRank(pc) + 1
           \/ pc' = "DONE" /\ returned' = PipelineFallback
    /\ (pc \notin InFlight /\ pc' # pc) => pc' = "START"
    /\ (pc = "CLASSIFIED" /\ pc' = "DISPATCHED") => node' = ExpectedHandler(state.intent)
    /\ (pc = "DISPATCHED" /\ pc' = "HANDLED") =>
           /\ HandlerOf(state'.response) = ExpectedHandler(state.intent)
           /\ UNCHANGED node
    /\ (pc \in {"HANDLED", "FORMATTED"}) => UNCHANGED <<node, state.response>>

\* intent values outside the table, which the classifier never passes on
UnknownIntents == {"", "MAYBE", "general", "CATALOG"}

\* C23: a request runs the stages once and in order: classification, one
\* handler, output formatting, the end; no stage is entered twice or after a
\* later one, and the handler is the one the table gives for the classified
\* intent, the general handler for any intent outside the table.
C23_StagesOnceInOrder ==
    /\ [][StagesInOrder]_vars
    /\ [](\A intent \in UnknownIntents : RouteByIntent(intent) = ExpectedHandler(intent))
    /\ [](pc \in {"DISPATCHED", "HANDLED", "FORMATTED"} => node = ExpectedHandler(state.intent))

\* a finance request went through every stage to the end
C23_Witness ==
    /\ pc = "DONE"
    /\ node = "finance_agent"
    /\ state.intent = "FINANCE_CALCULATION"
    /\ returned = state.final_message
    /\ returned # PipelineFallback

----------------------------------------------------------------------------
(* CarSearchService, the search_cars tool and find_similar_cars            *)

MaxSearchCars == 3      \* the most records drawn from the pool
MaxSimilar == 2         \* the largest limit of find_similar_cars


SearchCatalogs == SeqsOver(SearchPool, MaxSearchCars) \cup {LongCatalog, JettaCatalog}

Queries ==
    { <<"c", "i", "v", "i", "c", " ", "2", "0", "2", "0">>, <<>>, <<" ", "\t">>, <<"H", "o", "n", "d", "a">>,
      <<"v", "o", "l", "k", "s", "w", "a", "g", "e", "n", " ", "j", "e", "t", "t", "a">>,
      <<"v", "w", ",", " ", "j", "e", "t", "t", "a", "!">>,
      <<"h", "o", "n", "d", "a", " ", "a", "c", "c", "o", "r", "d">>,
      <<"2", "0", " ", "2", "0", "2", "1">>,
      <<"j", "e", "t", "t", "a", " ", "C", "i", "v", "i", "c", " ", "2", "0", "2", "1">>,
      <<"h", "o", "n", "d", "a", " ", "o", " ", "t", "o", "y", "o", "t", "a", " ", "2", "0", "1", "9", " ", "2", "0", "2", "0", " ", "2", "0", "2", "1", " ", "b", "a", "s", "e">>,
      <<"v", "w", " ", "j", "e", "t", "t", "a", " ", "g", "l", "i", " ", "2", "0", "2", "1", " ", "r", "o", "j", "o">>,
      <<"V", "W", " ", "j", "e", "t", "t", "a", " ", "2", "0", "2", "1", " ", "r", "o", "j", "o">> }


\* str(year)
RECURSIVE IntToStr(_)
IntToStr(n) ==
    IF n < 10 THEN <<Digits[n + 1]>>
    ELSE IntToStr(n \div 10) \o <<Digits[(n % 10) + 1]>>

\* str.split(): the words between runs of whitespace
RECURSIVE SplitFrom(_, _, _)
SplitFrom(s, word, words) ==
    IF s = <<>> THEN (IF word = <<>> THEN words ELSE Append(words, word))
    ELSE IF Head(s) \in Whitespace
    THEN SplitFrom(Tail(s), <<>>, IF word = <<>> THEN words ELSE Append(words, word))
    ELSE SplitFrom(Tail(s), Append(word, Head(s)), words)

Split(s) == SplitFrom(s, <<>>, <<>>)

\* " ".join(words)
RECURSIVE JoinWords(_)
JoinWords(words) ==
    IF words = <<>> THEN <<>>
    ELSE IF Len(words) = 1 THEN words[1]
    ELSE words[1] \o <<" ">> \o JoinWords(Tail(words))

\* str.replace(old, new), old not empty
RECURSIVE Replace(_, _, _)
Replace(s, old, new) ==
    IF Len(s) < Len(old) THEN s
    ELSE IF SubSeq(s, 1, Len(old)) = old
    THEN new \o Replace(SubSeq(s, Len(old) + 1, Len(s)), old, new)
    ELSE <<Head(s)>> \o Replace(Tail(s), old, new)

\* _calculate_text_match_score: score is 0.0, 1.0 is added to it for every
\* word of the query found in the text, and it is divided by the number of
\* words
CalculateTextMatchScore(car, query) ==
    LET searchable_text ==
            StrLower(car.make \o <<" ">> \o car.model \o <<" ">> \o car.version
                     \o <<" ">> \o IntToStr(car.year))
        query_words == Split(query)
        score == FloatOfInt(Cardinality({i \in 1..Len(query_words) :
                                            Contains(searchable_text, query_words[i])}))
    IN  IF query_words # <<>> THEN Div(score, FloatOfInt(Len(query_words))) ELSE score

\* the cars of a list of (car, score) pairs
CarsOf(scored) == [i \in 1..Len(scored) |-> scored[i].car]

\* the score search_by_text works out for every car of the catalog
TextMatchScores(cars, query) ==
    [i \in 1..Len(cars) |->
        [car |-> cars[i], score |-> CalculateTextMatchScore(cars[i], StrLower(query))]]

\* search_by_text
CarSearchByTextKeepsAll(cars, query) ==
    CarsOf(SortByFloatScoreDescending(TextMatchScores(cars, query)))
CarSearchByText(cars, query) ==
    LET matching_cars ==
            SelectSeq(TextMatchScores(cars, query), LAMBDA x : Less(Zero(0), x.score))
    IN  CarsOf(SortByFloatScoreDescending(matching_cars))

\* \w of the regular expression: the letters, the digits and the underscore
IsWordChar(c) ==
    \/ c \in DOMAIN ToLower \/ c \in DOMAIN ToUpper
    \/ c \in {"ß", "µ", "ª", "º"}
    \/ IsDigit(c) \/ c \in {"²", "³", "¹", "¼", "½", "¾"}
    \/ c = "_"

\* _normalize_make_model: the table, the special characters, the spaces
NormalizeMakeModel(text) ==
    LET a == Replace(text, <<"v", "o", "l", "k", "s", "w", "a", "g", "e", "n">>, <<"v", "w">>)
        b == Replace(a, <<"c", "h", "e", "v", "r", "o", "l", "e", "t">>, <<"c", "h", "e", "v", "y">>)
        c == Replace(b, <<"m", "e", "r", "c", "e", "d", "e", "s", " ", "b", "e", "n", "z">>, <<"m", "e", "r", "c", "e", "d", "e", "s">>)
        d == Replace(c, <<"l", "a", "n", "d", " ", "r", "o", "v", "e", "r">>, <<"l", "a", "n", "d", "r", "o", "v", "e", "r">>)
        e == Replace(d, <<"b", "m", "w">>, <<"b", "m", "w">>)
        f == SelectSeq(e, LAMBDA ch : IsWordChar(ch) \/ ch \in Whitespace)
    IN  JoinWords(Split(f))

Words(s) == {Split(s)[i] : i \in 1..Len(Split(s))}

\* _calculate_fuzzy_score
CalculateFuzzyScoreOverQuery(query, target) ==
    LET query_words == Words(query)
        target_words == Words(target)
    IN  IF query_words = {} \/ target_words = {} THEN Zero(0)
        ELSE Div(FloatOfInt(Cardinality(query_words \cap target_words)),
                 FloatOfInt(Cardinality(query_words)))
CalculateFuzzyScore(query, target) ==
    LET query_words == Words(query)
        target_words == Words(target)
    IN  IF query_words = {} \/ target_words = {} THEN Zero(0)
        ELSE Div(FloatOfInt(Cardinality(query_words \cap target_words)),
                 FloatOfInt(Cardinality(query_words \cup target_words)))

\* the score fuzzy_search_make_model works out for every car of the catalog
FuzzyScores(cars, make_model) ==
    LET normalized_query == NormalizeMakeModel(StrLower(make_model))
    IN  [i \in 1..Len(cars) |->
            [car |-> cars[i],
             score |-> CalculateFuzzyScore(
                           normalized_query,
                           NormalizeMakeModel(
                               StrLower(cars[i].make \o <<" ">> \o cars[i].model)))]]

\* score > 0.5
FuzzyThreshold == Rate(5000)

\* fuzzy_search_make_model
FuzzySearchMakeModel(cars, make_model) ==
    LET matching_cars ==
            SelectSeq(FuzzyScores(cars, make_model), LAMBDA x : Less(FuzzyThreshold, x.score))
    IN  CarsOf(SortByFloatScoreDescending(matching_cars))

\* a call of the search service and the list it returned
SearchCall(method, cars) == [method |-> method, returned |-> cars]

\* the tool search_cars after cars = search_by_text(query): "if not cars"
\* goes on to the fuzzy search, anything else to the answer
SearchCarsAfterKeywordAlwaysFuzzy(cars) == "fuzzy_search_make_model"
SearchCarsAfterKeyword(cars) == IF cars = <<>> THEN "fuzzy_search_make_model" ELSE "answer"

\* the answer of the tool search_cars for the cars it holds
SearchCarsAnswer(cars) ==
    IF cars = <<>> THEN Text("literal+query", "No encontré autos que coincidan con ")
    ELSE ToolText("search_cars")

\* _calculate_similarity_score in thousandths; the floating point sums of
\* 0.3 + 0.05 + 0.05 and of 0.4 + 0.2 + 0.05 + 0.05 fall one step below 0.4
\* and one step above 0.7
CalculateSimilarityScore(car1, car2) ==
    LET same_make == StrLower(car1.make) = StrLower(car2.make)
        price_diff_le == 5 * (Max(car1.price, car2.price) - Min(car1.price, car2.price))
                             <= Max(car1.price, car2.price)
        year_diff_le == Max(car1.year, car2.year) - Min(car1.year, car2.year) <= 2
        same_bluetooth == car1.bluetooth = car2.bluetooth
        same_car_play == car1.car_play = car2.car_play
        exact == (IF same_make THEN 400 ELSE 0) + (IF price_diff_le THEN 300 ELSE 0)
                 + (IF year_diff_le THEN 200 ELSE 0) + (IF same_bluetooth THEN 50 ELSE 0)
                 + (IF same_car_play THEN 50 ELSE 0)
    IN  IF ~same_make /\ price_diff_le /\ ~year_diff_le /\ same_bluetooth /\ same_car_play
        THEN exact - 1
        ELSE IF same_make /\ ~price_diff_le /\ year_diff_le /\ same_bluetooth /\ same_car_play
        THEN exact + 1
        ELSE exact

\* find_similar_cars: abs(price1 - price2) / max(price1, price2) is a Decimal
\* division, which raises when both prices are 0
FindSimilarCars(cars, car, limit) ==
    LET others == SelectSeq(cars, LAMBDA other : other.stock_id # car.stock_id)
    IN  IF \E i \in 1..Len(others) : Max(car.price, others[i].price) = 0
        THEN [NoSearchResult EXCEPT !.op = "find_similar_cars", !.raised = "InvalidOperation"]
        ELSE [NoSearchResult EXCEPT
                 !.op = "find_similar_cars",
                 !.cars = Take(CarsOf(SortByScoreDescending(
                              [i \in 1..Len(others) |->
                                  [car |-> others[i],
                                   score |-> CalculateSimilarityScore(car, others[i])]])),
                              limit)]

SearchResult(op, cars) == [NoSearchResult EXCEPT !.op = op, !.cars = cars]

\* the repository holds a catalog; a call brings its arguments
InitSearch ==
    /\ ChatIdle /\ FinanceIdle /\ AgentIdle /\ RecommendIdle /\ WebhookIdle /\ StoreIdle
    /\ \E cars \in SearchCatalogs : searchIn = [NoSearchCall EXCEPT !.cars = cars]
    /\ searchOut = NoSearchResult

search_by_text ==
    /\ searchOut = NoSearchResult
    /\ \E query \in Queries :
           /\ searchIn' = [searchIn EXCEPT !.query = query]
           /\ searchOut' = [SearchResult("search_by_text",
                                         CarSearchByText(searchIn.cars, query))
                               EXCEPT !.scored = TextMatchScores(searchIn.cars, query)]
    /\ UNCHANGED <<storeVars, finVars, chatVars, agentVars, recVars, hookVars>>

fuzzy_search_make_model ==
    /\ searchOut = NoSearchResult
    /\ \E make_model \in Queries :
           /\ searchIn' = [searchIn EXCEPT !.query = make_model]
           /\ searchOut' = [SearchResult("fuzzy_search_make_model",
                                         FuzzySearchMakeModel(searchIn.cars, make_model))
                               EXCEPT !.scored = FuzzyScores(searchIn.cars, make_model)]
    /\ UNCHANGED <<storeVars, finVars, chatVars, agentVars, recVars, hookVars>>

\* the tool search_cars, in the steps of its body: the keyword search, the
\* fuzzy search under "if not cars", and the answer
search_cars_search_by_text ==
    /\ searchOut = NoSearchResult
    /\ \E query \in Queries :
           LET cars == CarSearchByText(searchIn.cars, query)
           IN  /\ searchIn' = [searchIn EXCEPT !.query = query]
               /\ searchOut' = [SearchResult("search_cars", cars) EXCEPT
                                    !.pc = SearchCarsAfterKeyword(cars),
                                    !.calls = <<SearchCall("search_by_text", cars)>>]
    /\ UNCHANGED <<storeVars, finVars, chatVars, agentVars, recVars, hookVars>>

search_cars_fuzzy_search_make_model ==
    /\ searchOut.op = "search_cars"
    /\ searchOut.pc = "fuzzy_search_make_model"
    /\ LET cars == FuzzySearchMakeModel(searchIn.cars, searchIn.query)
       IN  searchOut' = [searchOut EXCEPT
                            !.pc = "answer",
                            !.cars = cars,
                            !.calls = Append(@, SearchCall("fuzzy_search_make_model", cars))]
    /\ UNCHANGED <<searchIn, storeVars, finVars, chatVars, agentVars, recVars, hookVars>>

search_cars_answer ==
    /\ searchOut.op = "search_cars"
    /\ searchOut.pc = "answer"
    /\ searchOut' = [searchOut EXCEPT
                        !.pc = "returned",
                        !.text = SearchCarsAnswer(searchOut.cars),
                        !.cars = Take(searchOut.cars, 5)]
    /\ UNCHANGED <<searchIn, storeVars, finVars, chatVars, agentVars, recVars, hookVars>>

find_similar_cars ==
    /\ searchOut = NoSearchResult
    /\ \E car \in SearchPool, limit \in 0..MaxSimilar :
           /\ searchIn' = [searchIn EXCEPT !.car = car, !.limit = limit]
           /\ searchOut' = FindSimilarCars(searchIn.cars, car, limit)
    /\ UNCHANGED <<storeVars, finVars, chatVars, agentVars, recVars, hookVars>>

\* recommend_cars for a customer without preferences, with its default limit
recommend_any_car ==
    /\ searchOut = NoSearchResult
    /\ searchOut' = SearchResult("recommend_cars",
                                 RecommendCars(searchIn.cars, NoPreferences, 5, Steady(2026)).cars)
    /\ UNCHANGED <<searchIn, storeVars, finVars, chatVars, agentVars, recVars, hookVars>>

NextSearch ==
    \/ search_by_text
    \/ fuzzy_search_make_model
    \/ search_cars_search_by_text
    \/ search_cars_fuzzy_search_make_model
    \/ search_cars_answer
    \/ find_similar_cars
    \/ recommend_any_car

SpecSearch == InitSearch /\ [][NextSearch]_vars

\* the stock_ids of a list of cars, in its order
IdList(cars) == [i \in 1..Len(cars) |-> cars[i].stock_id]

\* the words of the lowercased query that the car's text contains
TokensFound(car, query) ==
    LET text == StrLower(car.make \o <<" ">> \o car.model \o <<" ">> \o car.version
                         \o <<" ">> \o IntToStr(car.year))
        tokens == Split(StrLower(query))
    IN  {i \in 1..Len(tokens) : Contains(text, tokens[i])}

\* the float score is a float nearest to n / d, for 0 <= n <= d and d >= 1:
\* it is 0.0 for n = 0, and otherwise its mantissa m has 53 digits and
\* 2 * |m * d - n * 2^-e| <= d for its exponent e
NearestToRatio(score, n, d) ==
    IF n = 0 THEN score = Zero(0)
    ELSE /\ score.k = "fin" /\ score.s = 0 /\ score.e < 0
         /\ BitLen(score.m) = MantissaBits
         /\ LET a == BigMul(score.m, ToBig(d))
                b == ShiftLeftBits(ToBig(n), 0 - score.e)
                distance == IF BigCmp(a, b) >= 0 THEN BigSub(a, b) ELSE BigSub(b, a)
            IN  BigCmp(BigMulSmall(distance, 2), ToBig(d)) <= 0

\* the score the call worked out for the record
ScoreFound(car) ==
    searchOut.scored[CHOOSE i \in 1..Len(searchOut.scored) : searchOut.scored[i].car = car].score

\* C24: search_by_text scores a record by the number of lowercased query
\* tokens found in its lowercased "make model version year" text over the
\* number of tokens, returns exactly the records scoring above 0 in
\* non-increasing score order ("civic 2020" scores 1.0 on a 2020 Honda Civic
\* LX and leaves out a 2019 Toyota Corolla), and returns nothing for an empty
\* or all-whitespace query.
C24_TextSearchScoresTokens ==
    searchOut.op = "search_by_text" =>
        LET cars == searchIn.cars
            tokens == Split(StrLower(searchIn.query))
            result == searchOut.cars
            Found(car) == Cardinality(TokensFound(car, searchIn.query))
        IN  /\ Len(searchOut.scored) = Len(cars)
            /\ \A i \in 1..Len(cars) :
                   /\ searchOut.scored[i].car = cars[i]
                   /\ tokens # <<>> =>
                          NearestToRatio(searchOut.scored[i].score, Found(cars[i]), Len(tokens))
                   /\ tokens = <<>> => searchOut.scored[i].score = Zero(0)
            /\ Ids(result) = {cars[i].stock_id : i \in {j \in 1..Len(cars) : Found(cars[j]) > 0}}
            /\ Len(result) = Cardinality(Ids(result))
            /\ \A i \in 1..Len(result) : \E j \in 1..Len(cars) : result[i] = cars[j]
            /\ \A i, j \in 1..Len(result) :
                   i < j => /\ ~Less(ScoreFound(result[i]), ScoreFound(result[j]))
                            /\ Found(result[i]) >= Found(result[j])
            /\ tokens = <<>> => result = <<>>
            /\ searchIn.query = <<"c", "i", "v", "i", "c", " ", "2", "0", "2", "0">> =>
                   \A i \in 1..Len(cars) :
                       /\ cars[i] = Civic("1") => searchOut.scored[i].score = One
                       /\ cars[i].model = <<"C", "o", "r", "o", "l", "l", "a">> =>
                              /\ searchOut.scored[i].score = Zero(0)
                              /\ cars[i].stock_id \notin Ids(result)

\* seven tokens: the Corolla, listed second, holds four of them, the Civic
\* three and the Jetta two
C24_Witness ==
    /\ searchOut.op = "search_by_text"
    /\ Len(Split(searchIn.query)) = 7
    /\ IdList(searchIn.cars) = <<"3", "4", "1">>
    /\ IdList(searchOut.cars) = <<"4", "1", "3">>
    /\ searchOut.scored[2].score = Quotient(0, ToBig(4), 0, ToBig(7), 0)
    /\ Less(searchOut.scored[1].score, searchOut.scored[3].score)

\* C25 (as claimed): records with equal scores are returned by
\* search_by_text, fuzzy_search_make_model and recommend_cars in an order
\* fixed by a secondary key, so the order returned is the same for every
\* order in which the catalog lists the same records.
C25_OrderIndependentOfCatalogOrder ==
    LET listed == searchIn.cars
        relisted == [i \in 1..Len(listed) |-> listed[Len(listed) + 1 - i]]
    IN  /\ searchOut.op = "search_by_text" =>
               IdList(searchOut.cars) = IdList(CarSearchByText(relisted, searchIn.query))
        /\ searchOut.op = "fuzzy_search_make_model" =>
               IdList(searchOut.cars) = IdList(FuzzySearchMakeModel(relisted, searchIn.query))
        /\ searchOut.op = "recommend_cars" =>
               IdList(searchOut.cars)
                   = IdList(RecommendCars(relisted, NoPreferences, 5, Steady(2026)).cars)

\* the token sets of the normalized query and of the normalized car text
QueryTokens(make_model) == Words(NormalizeMakeModel(StrLower(make_model)))
CarTokens(car) == Words(NormalizeMakeModel(StrLower(car.make \o <<" ">> \o car.model)))

\* C26: fuzzy_search_make_model scores a record by the Jaccard similarity of
\* the token sets of the normalized query and of the normalized "make model"
\* text, 0 when either set is empty; it returns exactly the records scoring
\* above 0.5 in non-increasing score order, and texts that differ only by a
\* synonym of the table ("volkswagen jetta", "vw jetta") score 1.0.
C26_FuzzySearchIsJaccard ==
    searchOut.op = "fuzzy_search_make_model" =>
        LET cars == searchIn.cars
            A == QueryTokens(searchIn.query)
            result == searchOut.cars
            Shared(car) == Cardinality(A \cap CarTokens(car))
            All(car) == Cardinality(A \cup CarTokens(car))
        IN  /\ Len(searchOut.scored) = Len(cars)
            /\ \A i \in 1..Len(cars) :
                   LET B == CarTokens(cars[i])
                   IN  /\ searchOut.scored[i].car = cars[i]
                       /\ (A = {} \/ B = {}) => searchOut.scored[i].score = Zero(0)
                       /\ (A # {} /\ B # {}) =>
                              NearestToRatio(searchOut.scored[i].score,
                                             Shared(cars[i]), All(cars[i]))
            /\ Ids(result) =
                   {cars[i].stock_id :
                       i \in {j \in 1..Len(cars) :
                                 /\ A # {} /\ CarTokens(cars[j]) # {}
                                 /\ 2 * Shared(cars[j]) > All(cars[j])}}
            /\ Len(result) = Cardinality(Ids(result))
            /\ \A i \in 1..Len(result) : \E j \in 1..Len(cars) : result[i] = cars[j]
            /\ \A i, j \in 1..Len(result) :
                   i < j => /\ ~Less(ScoreFound(result[i]), ScoreFound(result[j]))
                            /\ Shared(result[i]) * All(result[j])
                                   >= Shared(result[j]) * All(result[i])
            /\ A = {<<"v", "w">>, <<"j", "e", "t", "t", "a">>} =>
                   \A i \in 1..Len(cars) :
                       (cars[i].make = <<"V", "o", "l", "k", "s", "w", "a", "g", "e", "n">> /\ cars[i].model = <<"J", "e", "t", "t", "a">>) =>
                           /\ searchOut.scored[i].score = One
                           /\ cars[i].stock_id \in Ids(result)

\* the query "vw, jetta!" against Volkswagen Jetta Gli, listed first, and
\* Volkswagen Jetta: the second scores 1.0 and comes first
C26_Witness ==
    /\ searchOut.op = "fuzzy_search_make_model"
    /\ searchIn.cars = JettaCatalog
    /\ searchIn.query = <<"v", "w", ",", " ", "j", "e", "t", "t", "a", "!">>
    /\ IdList(searchOut.cars) = <<"3", "5">>
    /\ searchOut.scored[1].score = Quotient(0, ToBig(2), 0, ToBig(3), 0)
    /\ searchOut.scored[2].score = One

\* C27: in the tool search_cars the fuzzy match runs only after the keyword
\* match returned no record; when the keyword match returns a record the
\* answer lists keyword results only, at most 5, and the no-match message is
\* returned only when both matches returned nothing.
C27_FuzzyOnlyAfterEmptyKeyword ==
    searchOut.op = "search_cars" =>
        LET calls == searchOut.calls
            no_match == Text("literal+query", "No encontré autos que coincidan con ")
            matched == {i \in 1..Len(searchIn.cars) :
                           TokensFound(searchIn.cars[i], searchIn.query) # {}}
            keyword == calls[1].returned
        IN  /\ Len(calls) >= 1 /\ calls[1].method = "search_by_text"
            /\ \A i \in 1..Len(calls) :
                   calls[i].method = "fuzzy_search_make_model" =>
                       i = 2 /\ keyword = <<>> /\ matched = {}
            /\ matched # {} => keyword # <<>> /\ Len(calls) = 1
            /\ searchOut.pc = "returned" =>
                   /\ Len(searchOut.cars) <= 5
                   /\ keyword # <<>> =>
                          /\ searchOut.cars = SubSeq(keyword, 1, Min(5, Len(keyword)))
                          /\ searchOut.text # no_match
                   /\ keyword = <<>> =>
                          /\ Len(calls) = 2
                          /\ searchOut.cars
                                 = SubSeq(calls[2].returned, 1, Min(5, Len(calls[2].returned)))
                   /\ searchOut.text = no_match <=>
                          \A i \in 1..Len(calls) : calls[i].returned = <<>>

\* six keyword matches, of which five are listed without a fuzzy match
C27_Witness ==
    /\ searchOut.op = "search_cars"
    /\ searchOut.pc = "returned"
    /\ searchIn.cars = LongCatalog
    /\ searchIn.query = <<"H", "o", "n", "d", "a">>
    /\ Len(searchOut.calls) = 1
    /\ Len(searchOut.calls[1].returned) = 6
    /\ Len(searchOut.cars) = 5

\* C29 (as claimed): for every catalog of valid records and every record r,
\* find_similar_cars(r, limit) completes without error and returns at most
\* limit records, never r itself, in non-increasing order of a similarity
\* score that lies between 0 and 1.0.
C29_FindSimilarCompletes ==
    searchOut.op = "find_similar_cars" =>
        LET Score(car) == CalculateSimilarityScore(searchIn.car, car)
            result == searchOut.cars
        IN  /\ \A i \in 1..Len(searchIn.cars) : searchIn.cars[i].price >= 0
            /\ searchOut.raised = ""
            /\ Len(result) <= searchIn.limit
            /\ \A i \in 1..Len(result) : result[i].stock_id # searchIn.car.stock_id
            /\ \A i, j \in 1..Len(result) : i < j => Score(result[i]) >= Score(result[j])
            /\ \A i \in 1..Len(result) : Score(result[i]) >= 0 /\ Score(result[i]) <= 1000

\* the price terms of the records of the catalog, worked out once
PriceScoresOf(inputs) == [x \in inputs |-> PriceScore(x.car, x.preferences)]
KnownPriceScores ==
    PriceScoresOf({[car |-> [price |-> car.price],
                    preferences |-> [min_price |-> preferences.min_price,
                                     max_price |-> preferences.max_price]] :
                       car \in CarPool, preferences \in PreferenceSets})
PriceScoreIn(table, x) ==
    IF x \in DOMAIN table THEN table[x] ELSE PriceScore(x.car, x.preferences)

\* the part of a record's recommendation score that the price range adds
PriceComponent(scored, call) ==
    PriceScoreIn(KnownPriceScores,
                 [car |-> [price |-> scored.car.price],
                  preferences |-> [min_price |-> call.preferences.min_price,
                                   max_price |-> call.preferences.max_price]])

\* C28 (as claimed): with min_price and max_price set and max > min, the
\* price-fit component of the recommendation score is at most 0.3, is 0.3 at
\* min + 0.6 * (max - min), decreases linearly with the distance from that
\* price, and is 0 for a record priced exactly at min_price or at max_price.
C28_PriceFitZeroAtRangeEdges ==
    \A k \in 1..Len(recOut) :
        LET preferences == prefs.preferences
            scored_cars == recOut[k].result.scored_cars
        IN  (~preferences.min_price.none /\ ~preferences.max_price.none
             /\ preferences.max_price.val > preferences.min_price.val) =>
                LET min_price == preferences.min_price.val
                    max_price == preferences.max_price.val
                    ten_ideal == 10 * min_price + 6 * (max_price - min_price)
                IN  \A i \in 1..Len(scored_cars) :
                        LET price == scored_cars[i].car.price
                            component == PriceComponent(scored_cars[i], prefs)
                        IN  /\ LessEq(Zero(0), component)
                            /\ LessEq(component, PriceWeight)
                            /\ 10 * price = ten_ideal => component = PriceWeight
                            /\ \A j \in 1..Len(scored_cars) :
                                   Abs(10 * scored_cars[j].car.price - ten_ideal)
                                       > Abs(10 * price - ten_ideal)
                                   => Less(PriceComponent(scored_cars[j], prefs), component)
                            /\ (price = min_price \/ price = max_price) => IsZero(component)

----------------------------------------------------------------------------
(* The two catalog repositories over one CSV source (SpecCatalog).         *)
(* A cell is what pandas read: a number, a text that is not a number, or   *)
(* a blank (NaN); in a column that holds a text, which has the dtype       *)
(* object, a number is read as its text.  carHeap holds the Car objects;   *)
(* _cars_cache and the list a caller was given hold references into it.    *)
(* Calls of one repository run on the threads of a pool.                   *)

MaxRows == 2            \* the most rows in the source
MaxCalls == 1           \* the most calls of get_all_cars one thread makes
MaxEdits == 1           \* the most records a caller assigns a field of

NumCell(n) == [t |-> "num", n |-> n, s |-> <<>>]
TextCell(s) == [t |-> "text", n |-> 0, s |-> s]
BlankCell == [t |-> "blank", n |-> 0, s |-> <<>>]

Row(stock_id, make, model, version, year, price, km, bluetooth, car_play, dimensions) ==
    [stock_id |-> stock_id, make |-> make, model |-> model, version |-> version,
     year |-> year, price |-> price, km |-> km, bluetooth |-> bluetooth,
     car_play |-> car_play, largo |-> dimensions[1], ancho |-> dimensions[2],
     altura |-> dimensions[3]]

\* the lines of the file: valid rows, rows one repository or both reject
\* (no year, a year of 1999, a price and a length that are no numbers, a
\* negative length), and two rows priced 0
RowList ==
    << Row("1", <<"H", "o", "n", "d", "a">>, <<"C", "i", "v", "i", "c">>, <<"L", "x">>, NumCell(2020), NumCell(250000), NumCell(40000),
           TextCell(<<"S", "i">>), TextCell(<<"Y", "e", "s">>),
           <<NumCell(4500), NumCell(1800), NumCell(1400)>>),
       Row("2", <<" ", "t", "o", "y", "o", "t", "a">>, <<"c", "o", "r", "o", "l", "l", "a", " ">>, <<"B", "a", "s", "e">>, NumCell(2019), NumCell(0), NumCell(0),
           TextCell(<<"N", "o">>), BlankCell,
           <<NumCell(0), BlankCell, BlankCell>>),
       Row("3", <<"S", "e", "a", "t">>, <<"I", "b", "i", "z", "a">>, <<"F", "r">>, NumCell(2022), NumCell(0), NumCell(10000),
           TextCell(<<"S", "i">>), BlankCell,
           <<TextCell(<<"s", "/", "d">>), NumCell(1700), NumCell(1400)>>),
       Row("4", <<"N", "i", "s", "s", "a", "n">>, <<"V", "e", "r", "s", "a">>, <<"S", "e", "n", "s", "e">>, BlankCell, NumCell(200000), NumCell(30000),
           BlankCell, BlankCell,
           <<BlankCell, BlankCell, BlankCell>>),
       Row("5", <<"M", "a", "z", "d", "a">>, <<"C", "x">>, <<"I">>, NumCell(1999), NumCell(90000), NumCell(150000),
           TextCell(<<"N", "o">>), TextCell(<<"N", "o">>),
           <<NumCell(4400), NumCell(1700), NumCell(1500)>>),
       Row("6", <<"K", "i", "a">>, <<"R", "i", "o">>, <<"L", "x">>, NumCell(2021), TextCell(<<"s", "/", "p">>), NumCell(20000),
           TextCell(<<"S", "i">>), TextCell(<<"S", "i">>),
           <<BlankCell, BlankCell, BlankCell>>),
       Row("7", <<"F", "o", "r", "d">>, <<"F", "i", "e", "s", "t", "a">>, <<"S">>, NumCell(2018), NumCell(150000), NumCell(70000),
           TextCell(<<"N", "o">>), TextCell(<<"N", "o">>),
           <<NumCell(0 - 1), NumCell(1700), NumCell(1500)>>) >>

\* pandas.read_csv: the numbers of a column that holds a text are strings
ReadCell(rows, column, cell) ==
    IF cell.t = "num" /\ \E i \in 1..Len(rows) : rows[i][column].t = "text"
    THEN [cell EXCEPT !.t = "numstr"]
    ELSE cell
ReadCsv(rows) ==
    [i \in 1..Len(rows) |->
        [column \in DOMAIN rows[i] |->
            IF column \in {"year", "price", "km", "bluetooth", "car_play",
                           "largo", "ancho", "altura"}
            THEN ReadCell(rows, column, rows[i][column])
            ELSE rows[i][column]]]

\* the files: at most MaxRows lines that follow one another in the list
Sources ==
    LET lines == {SubSeq(RowList, first, last) :
                     first \in 1..Len(RowList), last \in 0..Len(RowList)}
    IN  {ReadCsv(rows) : rows \in {r \in lines : Len(r) <= MaxRows}}

\* int(value) and Decimal(str(value)) of a cell; a blank is NaN
IntOfCell(cell) ==
    IF cell.t \in {"num", "numstr"} THEN [raised |-> "", val |-> cell.n]
    ELSE [raised |-> "ValueError", val |-> 0]
DecimalOfCell(cell) ==
    IF cell.t \in {"num", "numstr"} THEN [raised |-> "", val |-> cell.n]
    ELSE IF cell.t = "blank" THEN [raised |-> "ValidationError", val |-> 0]
    ELSE [raised |-> "InvalidOperation", val |-> 0]

\* CSVCarRepository._normalize_boolean; the first literal of the list in the
\* source is a mis-encoded word that no text of the pool lowercases to
NormalizeBoolean(value) ==
    IF value.t = "blank" \/ (value.t = "text" /\ value.s = <<>>) THEN "None"
    ELSE IF value.t = "text"
    THEN IF StrLower(value.s) \in {<<"s", "i">>, <<"y", "e", "s">>, <<"t", "r", "u", "e">>, <<"1">>} THEN "True" ELSE "False"
    ELSE IF value.t = "numstr" THEN (IF value.n = 1 THEN "True" ELSE "False")
    ELSE IF value.n # 0 THEN "True" ELSE "False"

\* an Optional[float]: None, or a float
NoFloat == [none |-> TRUE, val |-> Zero(0)]
SomeFloat(x) == [none |-> FALSE, val |-> x]

\* CSVCarRepository._normalize_numeric: None for a blank and for a text
\* float() rejects
NormalizeNumeric(value) ==
    IF value.t \in {"num", "numstr"} THEN SomeFloat(FloatOfInt(value.n)) ELSE NoFloat

\* the letters that are upper case or lower case
IsCased(c) ==
    c \in DOMAIN ToLower \/ c \in DOMAIN ToUpper \/ c \in {"ß", "µ", "ª", "º"}

\* the title-case form of one character: that of the sharp s is "Ss"
TitleChar(c) == IF c = "ß" THEN <<"S", "s">> ELSE UpperChar(c)

RECURSIVE TitleFrom(_, _)
\* str.title(): a letter is in title case after a character that is no
\* letter and lower case after a letter
TitleFrom(s, after_letter) ==
    IF s = <<>> THEN <<>>
    ELSE (IF after_letter THEN <<LowerChar(Head(s))>> ELSE TitleChar(Head(s)))
         \o TitleFrom(Tail(s), IsCased(Head(s)))

\* Car.normalize_text
NormalizeText(v) == IF v # <<>> THEN TitleFrom(Strip(v), FALSE) ELSE v

\* models.Car with the fields the searches read and its dimensions
DimensionedCar(car, length, width, height) ==
    [stock_id |-> car.stock_id, make |-> car.make, model |-> car.model,
     version |-> car.version, year |-> car.year, price |-> car.price, km |-> car.km,
     bluetooth |-> car.bluetooth, car_play |-> car.car_play,
     length |-> length, width |-> width, height |-> height]

\* CSVCarRepository._df_row_to_car: the Car, or the exception raised by a
\* conversion or by the validation of the fields (year 2000..2030, price,
\* km and the dimensions at least 0)
DfRowToCar(row) ==
    LET year == IntOfCell(row.year)
        price == DecimalOfCell(row.price)
        km == IntOfCell(row.km)
        length == NormalizeNumeric(row.largo)
        width == NormalizeNumeric(row.ancho)
        height == NormalizeNumeric(row.altura)
        raised == IF year.raised # "" THEN year.raised
                  ELSE IF price.raised = "InvalidOperation" THEN price.raised
                  ELSE IF km.raised # "" THEN km.raised
                  ELSE IF \/ year.val < 2000 \/ year.val > 2030
                          \/ price.raised # "" \/ price.val < 0
                          \/ km.val < 0
                          \/ Negative(length.val) \/ Negative(width.val)
                          \/ Negative(height.val)
                  THEN "ValidationError"
                  ELSE ""
    IN  [raised |-> raised,
         car |-> DimensionedCar(
                     FullCar(row.stock_id, NormalizeText(row.make), NormalizeText(row.model),
                             row.version, year.val, price.val, km.val,
                             NormalizeBoolean(row.bluetooth), NormalizeBoolean(row.car_play)),
                     length, width, height)]

\* the cars the loop of get_all_cars appends when it runs from its first
\* row to its last: a row that raises is skipped
LoadCsv(rows) ==
    LET converted == [i \in 1..Len(rows) |-> DfRowToCar(rows[i])]
        valid == SelectSeq(converted, LAMBDA r : r.raised = "")
    IN  [i \in 1..Len(valid) |-> valid[i].car]

\* the objects a list of references names
Deref(objects, refs) == [i \in 1..Len(refs) |-> objects[refs[i]]]

\* bool(value) of a cell after fillna(""): a blank is "", a text is not empty
CellTruthy(cell) == cell.t \in {"text", "numstr"} \/ (cell.t = "num" /\ cell.n # 0)

\* "float(value) if value else None" of PandasCatalogRepository.get_all
FloatIfSet(cell) ==
    IF ~CellTruthy(cell) THEN [raised |-> "", val |-> NoFloat]
    ELSE IF cell.t = "text" THEN [raised |-> "ValueError", val |-> NoFloat]
    ELSE [raised |-> "", val |-> SomeFloat(FloatOfInt(cell.n))]

\* "value if value else None" of a cell: None is written as the blank cell
ValueIfSet(cell) == IF CellTruthy(cell) THEN cell ELSE BlankCell

\* the exception a list of conversions raises: that of the first one to raise
FirstRaised(conversions) ==
    LET raising == {i \in 1..Len(conversions) : conversions[i].raised # ""}
    IN  IF raising = {} THEN ""
        ELSE conversions[CHOOSE i \in raising : \A j \in raising : i <= j].raised

\* catalog_service.Car built by PandasCatalogRepository.get_all from one row
\* after fillna(""), or the exception raised
PandasRowToCar(row) ==
    LET year == IntOfCell(row.year)
        price == IF row.price.t \in {"num", "numstr"}
                 THEN [raised |-> "", val |-> FloatOfInt(row.price.n)]
                 ELSE [raised |-> "ValueError", val |-> Zero(0)]
        kms == IF CellTruthy(row.km) THEN IntOfCell(row.km) ELSE [raised |-> "", val |-> 0]
        largo == FloatIfSet(row.largo)
        ancho == FloatIfSet(row.ancho)
        altura == FloatIfSet(row.altura)
    IN  [raised |-> FirstRaised(<<year, price, kms, largo, ancho, altura>>),
         car |-> [id |-> row.stock_id, marca |-> row.make, modelo |-> row.model,
                  year |-> year.val, price |-> price.val,
                  kms |-> IF CellTruthy(row.km) THEN Some(kms.val) ELSE None,
                  version |-> IF row.version # <<>> THEN TextCell(row.version) ELSE BlankCell,
                  bluetooth |-> ValueIfSet(row.bluetooth),
                  largo |-> largo.val, ancho |-> ancho.val, altura |-> altura.val,
                  car_play |-> ValueIfSet(row.car_play)]]

\* PandasCatalogRepository.get_all: one list comprehension over the rows
PandasGetAll(rows) ==
    LET converted == [i \in 1..Len(rows) |-> PandasRowToCar(rows[i])]
        failing == {i \in 1..Len(rows) : converted[i].raised # ""}
    IN  IF failing # {}
        THEN [called |-> TRUE,
              raised |-> converted[CHOOSE i \in failing : \A j \in failing : i <= j].raised,
              cars |-> <<>>]
        ELSE [called |-> TRUE, raised |-> "",
              cars |-> [i \in 1..Len(rows) |-> converted[i].car]]

\* the threads that call the repository, and a thread outside get_all_cars
Threads == {1, 2}
Outside == [pc |-> "outside", row |-> 0, calls |-> 0]

InitCatalog ==
    /\ ChatIdle /\ FinanceIdle /\ AgentIdle /\ RecommendIdle /\ WebhookIdle /\ SearchIdle
    /\ source \in Sources
    /\ carHeap = <<>>
    /\ cacheList = NoCache
    /\ callerList = <<>>
    /\ threads = [t \in Threads |-> Outside]
    /\ pandasOut = NoLoad

\* a thread enters get_all_cars, called by a caller or by a service, and
\* tests "self._cars_cache is None"
get_all_cars_tests_cache ==
    \E t \in Threads :
        /\ threads[t].pc = "outside"
        /\ threads[t].calls < MaxCalls
        /\ threads' = [threads EXCEPT
                          ![t].pc = IF cacheList.loaded THEN "copy" ELSE "load",
                          ![t].calls = @ + 1]
        /\ UNCHANGED <<source, carHeap, cacheList, callerList, pandasOut, searchVars,
                       finVars, chatVars, agentVars, recVars, hookVars>>

\* df = self._load_data(); self._cars_cache = []
get_all_cars_empties_cache ==
    \E t \in Threads :
        /\ threads[t].pc = "load"
        /\ cacheList' = [loaded |-> TRUE, cars |-> <<>>]
        /\ threads' = [threads EXCEPT
                          ![t].pc = IF source = <<>> THEN "copy" ELSE "row",
                          ![t].row = IF source = <<>> THEN 0 ELSE 1]
        /\ UNCHANGED <<source, carHeap, callerList, pandasOut, searchVars, finVars,
                       chatVars, agentVars, recVars, hookVars>>

\* one turn of the loop: the row is converted and the car appended to the
\* list self._cars_cache names now, or the row is skipped
get_all_cars_appends_row ==
    \E t \in Threads :
        LET converted == DfRowToCar(source[threads[t].row])
        IN  /\ threads[t].pc = "row"
            /\ IF converted.raised = ""
               THEN /\ carHeap' = Append(carHeap, converted.car)
                    /\ cacheList' = [cacheList EXCEPT !.cars = Append(@, Len(carHeap) + 1)]
               ELSE UNCHANGED <<carHeap, cacheList>>
            /\ threads' = [threads EXCEPT
                              ![t].pc = IF threads[t].row = Len(source) THEN "copy" ELSE "row",
                              ![t].row = IF threads[t].row = Len(source) THEN 0 ELSE @ + 1]
            /\ UNCHANGED <<source, callerList, pandasOut, searchVars, finVars, chatVars,
                           agentVars, recVars, hookVars>>

\* return self._cars_cache.copy(), to a caller that keeps the list
get_all_cars ==
    \E t \in Threads :
        /\ threads[t].pc = "copy"
        /\ callerList' = cacheList.cars
        /\ threads' = [threads EXCEPT ![t].pc = "outside"]
        /\ UNCHANGED <<source, carHeap, cacheList, pandasOut, searchVars, finVars,
                       chatVars, agentVars, recVars, hookVars>>

\* the caller reorders the list it was given
caller_reverses_list ==
    /\ Len(callerList) >= 2
    /\ callerList' = [i \in 1..Len(callerList) |-> callerList[Len(callerList) + 1 - i]]
    /\ UNCHANGED <<source, carHeap, cacheList, threads, pandasOut, searchVars, finVars,
                   chatVars, agentVars, recVars, hookVars>>

\* the caller deletes the first element of the list it was given
caller_removes_record ==
    /\ callerList # <<>>
    /\ callerList' = Tail(callerList)
    /\ UNCHANGED <<source, carHeap, cacheList, threads, pandasOut, searchVars, finVars,
                   chatVars, agentVars, recVars, hookVars>>

\* the caller assigns the price of the first record of the list it was
\* given: models.Car is a pydantic model that is not frozen
caller_edits_record ==
    /\ callerList # <<>>
    /\ carHeap[callerList[1]].price # 1
    /\ Cardinality({i \in 1..Len(carHeap) : carHeap[i].price = 1}) < MaxEdits
    /\ carHeap' = [carHeap EXCEPT ![callerList[1]].price = 1]
    /\ UNCHANGED <<source, cacheList, callerList, threads, pandasOut, searchVars, finVars,
                   chatVars, agentVars, recVars, hookVars>>

\* the service calls: get_all_cars returns the copy to a service, which
\* works on it and answers
catalog_search_cars ==
    \E t \in Threads :
        /\ threads[t].pc = "copy"
        /\ searchOut' = SearchResult("search_cars",
                                     RepositorySearchCars(Deref(carHeap, cacheList.cars),
                                                          NoPreferences))
        /\ threads' = [threads EXCEPT ![t].pc = "outside"]
        /\ UNCHANGED <<source, carHeap, cacheList, callerList, pandasOut, searchIn, finVars,
                       chatVars, agentVars, recVars, hookVars>>

catalog_recommend_cars ==
    \E t \in Threads :
        /\ threads[t].pc = "copy"
        /\ searchOut' = SearchResult("recommend_cars",
                                     RecommendCars(Deref(carHeap, cacheList.cars),
                                                   NoPreferences, 5, Steady(2026)).cars)
        /\ threads' = [threads EXCEPT ![t].pc = "outside"]
        /\ UNCHANGED <<source, carHeap, cacheList, callerList, pandasOut, searchIn, finVars,
                       chatVars, agentVars, recVars, hookVars>>

\* find_similar_cars for the first record of the list the caller holds
catalog_find_similar_cars ==
    \E t \in Threads :
        /\ threads[t].pc = "copy"
        /\ callerList # <<>>
        /\ searchOut' = FindSimilarCars(Deref(carHeap, cacheList.cars),
                                        carHeap[callerList[1]], 5)
        /\ threads' = [threads EXCEPT ![t].pc = "outside"]
        /\ UNCHANGED <<source, carHeap, cacheList, callerList, pandasOut, searchIn, finVars,
                       chatVars, agentVars, recVars, hookVars>>

catalog_search_by_text ==
    \E t \in Threads :
        /\ threads[t].pc = "copy"
        /\ searchOut' = SearchResult("search_by_text",
                                     CarSearchByText(Deref(carHeap, cacheList.cars), <<"o">>))
        /\ threads' = [threads EXCEPT ![t].pc = "outside"]
        /\ UNCHANGED <<source, carHeap, cacheList, callerList, pandasOut, searchIn, finVars,
                       chatVars, agentVars, recVars, hookVars>>

\* the other repository loads the same source
pandas_get_all ==
    /\ pandasOut' = PandasGetAll(source)
    /\ UNCHANGED <<source, carHeap, cacheList, callerList, threads, searchVars, finVars,
                   chatVars, agentVars, recVars, hookVars>>

NextCatalog ==
    \/ get_all_cars_tests_cache
    \/ get_all_cars_empties_cache
    \/ get_all_cars_appends_row
    \/ get_all_cars
    \/ caller_reverses_list
    \/ caller_removes_record
    \/ caller_edits_record
    \/ catalog_search_cars
    \/ catalog_recommend_cars
    \/ catalog_find_similar_cars
    \/ catalog_search_by_text
    \/ pandas_get_all

SpecCatalog == InitCatalog /\ [][NextCatalog]_vars

----------------------------------------------------------------------------
(* Claims about the catalog repositories (SpecCatalog).                    *)

\* the cache is loaded and no thread is in the loop that fills it
CacheFilled == cacheList.loaded /\ \A t \in Threads : threads[t].pc # "row"

\* C22 (as claimed): the catalog store is read-only for its callers: no
\* sequence of get_all_cars, search_cars, recommend_cars, find_similar_cars
\* and text-search calls, nor a caller reordering or editing the list it was
\* given, changes the records that later calls read or their order.
C22_CatalogReadOnlyForCallers ==
    CacheFilled =>
        /\ Deref(carHeap, cacheList.cars) = LoadCsv(source)
        /\ searchOut.op = "search_cars" =>
               IdList(searchOut.cars)
                   = IdList(RepositorySearchCars(LoadCsv(source), NoPreferences))
        /\ searchOut.op = "recommend_cars" =>
               IdList(searchOut.cars)
                   = IdList(RecommendCars(LoadCsv(source), NoPreferences, 5, Steady(2026)).cars)

\* the CSV repository holds exactly the rows that convert, in source order
CsvLoadSkipsInvalidRows ==
    CacheFilled =>
        IdList(Deref(carHeap, cacheList.cars))
            = IdList(SelectSeq(source, LAMBDA row : DfRowToCar(row).raised = ""))

\* C30 (as claimed): a row that fails to parse or validate is skipped and the
\* load continues: after loading, the catalog holds exactly the valid rows in
\* source order and the load does not fail, for CSVCarRepository.get_all_cars
\* and for PandasCatalogRepository.get_all.
C30_InvalidRowsSkipped ==
    /\ CsvLoadSkipsInvalidRows
    /\ pandasOut.called =>
           /\ pandasOut.raised = ""
           /\ [i \in 1..Len(pandasOut.cars) |-> pandasOut.cars[i].id]
                  = IdList(SelectSeq(source, LAMBDA row : PandasRowToCar(row).raised = ""))

====
